---- MODULE Spec2Model ----
(***************************************************************************)
(* A model of hkg, a package manager for a user's home directory           *)
(* (src/hkg_package/hkg/hkg/hkg.py): the package database API, the         *)
(* install / remove engines working on the home directory, and the         *)
(* repository synchronisation (update_repo).                               *)
(*                                                                         *)
(* Strings whose content the code inspects (package names, versions, file  *)
(* names) are sequences of character codes, so that Python's string        *)
(* comparison, str.lower and the '.hkg' suffix test are computed and not   *)
(* assumed.                                                                *)
(***************************************************************************)
EXTENDS Integers, Sequences, FiniteSets, TLC

VARIABLES
    db,        \* ~/.local/share/hkg/packages.hdb (or the store under test)
    dirs,      \* which of the well-known directories exist
    cache,     \* ~/.cache/hkg/<name>.hkg : name -> downloaded content
    root,      \* ~/.local/share/hkg/<name> : name -> extracted tree
    bin,       \* ~/bin/<name> : name -> directory entry
    sources,   \* settings.conf [SOURCES] keys in file order, with what each URL serves
    repoDb,    \* <repo>/packages.hdb of a repository on disk
    repoDir,   \* the other entries of the repository directory: file name -> content
    temp,      \* ~/.cache/hkg/temp, where update_package stages etc/ files
    srcDir,    \* a package source tree handed to validate_source_directory
    config,    \* ~/.config/hkg/settings.conf as add_repo and del_repo read and write it
    procs,     \* concurrent invocations of package_database_api: where each one stands
    call,      \* the last invocation and its arguments
    result,    \* what the last invocation returned or raised
    log        \* the side effects of the last invocation, in order

vars == <<db, dirs, cache, root, bin, sources, repoDb, repoDir, temp, srcDir, config, procs, call, result,
          log>>

-----------------------------------------------------------------------------
(* Strings as sequences of character codes *)

Str_p == <<112>>
Str_q == <<113>>
Str_P == <<80>>
Str_1_0 == <<49, 46, 48>>
Str_9_0 == <<57, 46, 48>>
Str_10_0 == <<49, 48, 46, 48>>
Str_hkg == <<46, 104, 107, 103>>
Str_README == <<82, 69, 65, 68, 77, 69>>
Str_notes == <<110, 111, 116, 101, 115>>

\* str.lower() on one character code
LowerChar(c) == IF c >= 65 /\ c <= 90 THEN c + 32 ELSE c

\* configparser's default optionxform: option names are lower-cased
optionxform(s) == [i \in DOMAIN s |-> LowerChar(s[i])]

\* Python's  a > b  on str: the first differing character decides, a proper
\* prefix is the smaller string
StrGreater(a, b) ==
    LET common == {i \in 1..Len(a) : i <= Len(b)}
        diff == {i \in common : a[i] # b[i]}
    IN  IF diff = {}
        THEN Len(a) > Len(b)
        ELSE LET k == CHOOSE i \in diff : \A j \in diff : i <= j
             IN  a[k] > b[k]

\* The version strings the model draws from: "10.0" is numerically the
\* greatest and lexicographically between "1.0" and "9.0"
Versions == {Str_1_0, Str_9_0, Str_10_0}

\* Valid package names, and a name with an upper-case letter
Names == {Str_p, Str_q}
RawNames == Names \cup {Str_P}

SectionNames == {"INSTALLED", "AVAILABLE"}

-----------------------------------------------------------------------------
(* Ordered mappings: a section's options as a sequence of <<key, value>> *)

Keys(items) == [i \in DOMAIN items |-> items[i][1]]

KeySet(items) == {items[i][1] : i \in DOMAIN items}

HasKey(items, k) == \E i \in DOMAIN items : items[i][1] = k

Get(items, k) == items[CHOOSE i \in DOMAIN items : items[i][1] = k][2]

\* dict assignment: an existing key keeps its position, a new key is appended
Put(items, k, v) ==
    IF HasKey(items, k)
    THEN [i \in DOMAIN items |-> IF items[i][1] = k THEN <<k, v>> ELSE items[i]]
    ELSE Append(items, <<k, v>>)

Del(items, k) == SelectSeq(items, LAMBDA kv : kv[1] # k)

-----------------------------------------------------------------------------
(* A packages.hdb file: the sections in file order, or no file at all *)

NoFile == [exists |-> FALSE, sections |-> <<>>]

File(secs) == [exists |-> TRUE, sections |-> secs]

\* The text init_package_database writes: '[INSTALLED]\n\n[AVAILABLE]\n'
SkeletonSections ==
    << [name |-> "INSTALLED", items |-> <<>>], [name |-> "AVAILABLE", items |-> <<>>] >>

HasSection(f, s) == \E i \in DOMAIN f.sections : f.sections[i].name = s

SecIdx(f, s) == CHOOSE i \in DOMAIN f.sections : f.sections[i].name = s

Items(f, s) == f.sections[SecIdx(f, s)].items

WithItems(f, s, items) ==
    [f EXCEPT !.sections[SecIdx(f, s)].items = items]

\* ConfigParser.read: a missing file is skipped silently, a section header
\* met twice is a DuplicateSectionError (strict parsing is the default)
Parses(f) ==
    \A i, j \in DOMAIN f.sections :
        f.sections[i].name = f.sections[j].name => i = j

\* The staging directory ~/.cache/hkg/temp, absent
NoTemp == [exists |-> FALSE, files |-> {}]

\* No package source tree at all
NoSourceTree == [exists |-> FALSE, top |-> {}, inner |-> {}]

-----------------------------------------------------------------------------
(* What a call returns or raises *)

Returned(b) == [exc |-> "none", b |-> b, s |-> <<>>, l |-> <<>>]
ReturnedStr(s) == [exc |-> "none", b |-> FALSE, s |-> s, l |-> <<>>]
ReturnedList(l) == [exc |-> "none", b |-> FALSE, s |-> <<>>, l |-> l]
Raised(e) == [exc |-> e, b |-> FALSE, s |-> <<>>, l |-> <<>>]

IsTrue(r) == r.exc = "none" /\ r.b
IsFalse(r) == r.exc = "none" /\ ~r.b /\ r.s = <<>> /\ r.l = <<>>

ApiOut(f, r) == [file |-> f, ret |-> r]

DbActions == {"create", "delete", "update", "check", "version", "list", "add"}

\* 'create' and 'update': pkg_db[section][name] = version, then the whole
\* file is written back
MutSetAlone(f, section, name, ver) ==
    ApiOut(WithItems(f, section, << <<optionxform(name), ver>> >>), Returned(TRUE))

MutSetAppends(f, section, name, ver) ==
    ApiOut(WithItems(f, section, Append(Items(f, section), <<optionxform(name), ver>>)),
           Returned(TRUE))

api_set(f, section, name, ver) ==
    ApiOut(WithItems(f, section, Put(Items(f, section), optionxform(name), ver)),
           Returned(TRUE))

\* 'delete': the entry is set, then deleted, then the whole file is written
MutDeleteKeeps(f, section, name, ver) ==
    ApiOut(WithItems(f, section, Put(Items(f, section), optionxform(name), ver)),
           Returned(TRUE))

api_delete(f, section, name, ver) ==
    ApiOut(WithItems(f, section, Del(Put(Items(f, section), optionxform(name), ver),
                                     optionxform(name))),
           Returned(TRUE))

\* 'check': the name as given is looked up among the (lower-cased) keys
MutCheckAbsent(f, section, name) == ApiOut(f, Returned(FALSE))

api_check(f, section, name) ==
    ApiOut(f, Returned(HasKey(Items(f, section), name)))

\* 'version': pkg_db[section][name]
api_version(f, section, name) ==
    IF HasKey(Items(f, section), optionxform(name))
    THEN ApiOut(f, ReturnedStr(Get(Items(f, section), optionxform(name))))
    ELSE ApiOut(f, Raised("KeyError"))

api_list(f, section) == ApiOut(f, ReturnedList(Keys(Items(f, section))))

package_database_api(f, action, section, name, ver) ==
    IF ~Parses(f) THEN ApiOut(f, Raised("DuplicateSectionError"))
    ELSE IF action \notin {"create", "delete", "update", "check", "version", "list"}
    THEN ApiOut(f, Returned(FALSE))
    ELSE IF ~HasSection(f, section) THEN ApiOut(f, Raised("KeyError"))
    ELSE CASE action = "create" -> api_set(f, section, name, ver)
           [] action = "update" -> api_set(f, section, name, ver)
           [] action = "delete" -> api_delete(f, section, name, ver)
           [] action = "check" -> api_check(f, section, name)
           [] action = "version" -> api_version(f, section, name)
           [] action = "list" -> api_list(f, section)

\* init_package_database: the skeleton is appended to whatever the file holds
init_package_database(f) == File(f.sections \o SkeletonSections)

-----------------------------------------------------------------------------
(* Calls *)

NoCall == [op |-> "none", action |-> "", section |-> "", name |-> <<>>, ver |-> <<>>,
           src |-> 0]

ApiCallRec(action, section, name, ver) ==
    [op |-> "api", action |-> action, section |-> section, name |-> name, ver |-> ver,
     src |-> 0]

OpCall(op, name, src) ==
    [op |-> op, action |-> "", section |-> "", name |-> name, ver |-> <<>>, src |-> src]

-----------------------------------------------------------------------------
(* SpecStore: the package database API on one store file *)

\* How many times the skeleton may be appended to an existing store file
MaxReinit == 1

\* Section names a caller may pass: the two of a store and one it lacks
CallSections == SectionNames \cup {"OPTIONS"}

\* The version argument of a call: callers pass a real version to 'create'
\* and 'update' and a placeholder ('0', '-1', '') to the other actions
Str_0 == <<48>>
CallVersions(action) ==
    IF action \in {"create", "update"} THEN {Str_1_0, Str_10_0} ELSE {Str_0}

StoreIdle ==
    /\ temp = NoTemp
    /\ srcDir = NoSourceTree
    /\ config = NoFile
    /\ procs = <<>>
    /\ dirs = {}
    /\ cache = <<>>
    /\ root = <<>>
    /\ bin = <<>>
    /\ sources = <<>>
    /\ repoDb = NoFile
    /\ repoDir = <<>>
    /\ log = <<>>

StoreInit ==
    /\ db = NoFile
    /\ call = NoCall
    /\ result = Returned(FALSE)
    /\ StoreIdle

\* init_package_database(db_location)
StoreInitDb ==
    /\ Len(db.sections) < 2 * (MaxReinit + 1)
    /\ db' = init_package_database(db)
    /\ call' = OpCall("init_package_database", <<>>, 0)
    /\ result' = Returned(TRUE)
    /\ UNCHANGED <<dirs, cache, root, bin, sources, repoDb, repoDir, temp, srcDir, config, procs,
                 log>>

\* package_database_api(db_location, db_action, db_section, db_pkgname, db_pkgver)
StoreApi ==
    \E action \in DbActions, section \in CallSections, name \in RawNames :
      \E ver \in CallVersions(action) :
        LET out == package_database_api(db, action, section, name, ver)
        IN  /\ db' = out.file
            /\ call' = ApiCallRec(action, section, name, ver)
            /\ result' = out.ret
            /\ UNCHANGED <<dirs, cache, root, bin, sources, repoDb, repoDir, temp, srcDir, config, procs,
                 log>>

StoreNext == StoreInitDb \/ StoreApi

SpecStore == StoreInit /\ [][StoreNext]_vars

\* A store that has the sections INSTALLED and AVAILABLE
HasBothSections(f) ==
    f.exists /\ Parses(f) /\ \A s \in SectionNames : HasSection(f, s)

\* C1: on a store with both sections, for every section S, valid name n and
\* version v: create(S,n,v) succeeds, after it check(S,n) returns true and
\* version(S,n) returns v, and after a following delete(S,n) check(S,n)
\* returns false.
C1_CrudSequence ==
    HasBothSections(db) =>
        \A S \in SectionNames, n \in Names, v \in Versions :
            LET c == package_database_api(db, "create", S, n, v)
                d == package_database_api(c.file, "delete", S, n, v)
            IN  /\ IsTrue(c.ret)
                /\ IsTrue(package_database_api(c.file, "check", S, n, v).ret)
                /\ package_database_api(c.file, "version", S, n, v).ret = ReturnedStr(v)
                /\ IsTrue(d.ret)
                /\ IsFalse(package_database_api(d.file, "check", S, n, v).ret)

\* A delete that followed a create on a store holding another entry
C1_Witness ==
    /\ call.op = "api" /\ call.action = "delete"
    /\ call.section \in SectionNames /\ call.name \in Names
    /\ IsTrue(result)
    /\ HasBothSections(db)
    /\ ~HasKey(Items(db, call.section), call.name)
    /\ Len(Items(db, call.section)) = 1
    /\ Len(Items(db, CHOOSE s \in SectionNames : s # call.section)) = 2

-----------------------------------------------------------------------------
(* The home directory and what the configured sources serve *)

\* A package archive <name>.hkg: the version in ./<name>/metadata, the entries
\* of ./<name>/<name>/ and the files of its etc/ directory. "nottar" is a body
\* that tarfile cannot open (the error page of a missing file).
Archive(version, inner, etc) ==
    [kind |-> "tar", version |-> version, inner |-> inner, etc |-> etc]

NotTar == [kind |-> "nottar", version |-> <<>>, inner |-> {}, etc |-> {}]

NoArchive == [kind |-> "none", version |-> <<>>, inner |-> {}, etc |-> {}]

\* An extracted package tree ~/.local/share/hkg/<name>/
NoTree == [present |-> FALSE, version |-> <<>>, inner |-> {}, etc |-> {}]

\* An entry ~/bin/<name>: nothing, a file, or a symbolic link whose target is
\* the package's executable ("pkg"), an existing path elsewhere or a path
\* that does not exist ("nowhere")
NoEntry == [kind |-> "none", target |-> "", exe |-> ""]
FileEntry == [kind |-> "file", target |-> "", exe |-> ""]
LinkTo(target, exe) == [kind |-> "symlink", target |-> target, exe |-> exe]

\* os.path.exists follows symbolic links; os.path.islink does not
path_exists(e, tree) ==
    \/ e.kind = "file"
    \/ /\ e.kind = "symlink"
       /\ \/ e.target = "elsewhere"
          \/ e.target = "pkg" /\ tree.present /\ e.exe \in tree.inner

path_islink(e) == e.kind = "symlink"

Ev(ev, src, name) == [ev |-> ev, src |-> src, name |-> name]

\* The three well-known directories
WellKnownDirs == <<"cache", "root", "bin">>

\* os.makedirs(..., exist_ok=True) for each well-known directory that is missing
ensure_dirs(h) ==
    LET missing == SelectSeq(WellKnownDirs, LAMBDA d : d \notin h.dirs)
    IN  [h EXCEPT !.dirs = h.dirs \cup {"cache", "root", "bin"},
                  !.log = h.log \o [i \in DOMAIN missing |-> Ev("mkdir", 0, <<>>)]]

HomeOut(h, r) == [home |-> h, ret |-> r]

\* What requests.get(url) does for a source: "up" answers; a source that
\* cannot be reached makes requests raise requests.exceptions.ConnectionError,
\* which derives from OSError and not from the builtin ConnectionError that
\* the handlers name; "reset" stands for a failure surfacing as the builtin
\* ConnectionError itself
SourceStatus == {"up", "unreachable", "reset"}

GetRaises(status) ==
    CASE status = "unreachable" -> "requests.exceptions.ConnectionError"
      [] status = "reset" -> "ConnectionError"
      [] OTHER -> "none"

\* except ConnectionError:  the builtin class and its subclasses only
CaughtAsConnectionError(exc) == exc = "ConnectionError"

-----------------------------------------------------------------------------
(* install_package *)

\* What GET <source>/<name>.hkg answers: the archive, or an error page
Served(s, n) == IF s.pkgs[n].kind = "tar" THEN s.pkgs[n] ELSE NotTar

FindOut(st, h, exc, i) == [st |-> st, home |-> h, exc |-> exc, idx |-> i]

\* The for/else loop over the candidate sources: the first source whose
\* AVAILABLE section has the name is downloaded from, and the loop breaks
RECURSIVE find_package(_, _, _, _, _)
MutFindLast(h, srcs, cands, k, n) ==
    LET having == {j \in DOMAIN cands :
                      /\ srcs[cands[j]].status = "up"
                      /\ HasSection(srcs[cands[j]].db, "AVAILABLE")
                      /\ HasKey(Items(srcs[cands[j]].db, "AVAILABLE"), n)}
    IN  IF having = {} THEN FindOut("notfound", h, "none", 0)
        ELSE LET j == CHOOSE x \in having : \A y \in having : y <= x
             IN  FindOut("found",
                         [h EXCEPT !.log = h.log \o <<Ev("GET_db", cands[j], <<>>),
                                                      Ev("GET_pkg", cands[j], n)>>,
                                   !.cache[n] = Served(srcs[cands[j]], n)],
                         "none", cands[j])

find_package(h, srcs, cands, k, n) ==
    IF k > Len(cands) THEN FindOut("notfound", h, "none", 0)
    ELSE
    LET i == cands[k]
        s == srcs[i]
        h1 == [h EXCEPT !.log = Append(h.log, Ev("GET_db", i, <<>>))]
    IN  IF s.status # "up"
        THEN IF CaughtAsConnectionError(GetRaises(s.status))
             THEN find_package(h1, srcs, cands, k + 1, n)
             ELSE FindOut("raised", h1, GetRaises(s.status), 0)
        ELSE IF ~Parses(s.db) THEN FindOut("raised", h1, "DuplicateSectionError", 0)
        ELSE IF ~HasSection(s.db, "AVAILABLE") THEN FindOut("raised", h1, "KeyError", 0)
        ELSE IF HasKey(Items(s.db, "AVAILABLE"), n)
        THEN FindOut("found",
                     [h1 EXCEPT !.log = Append(h1.log, Ev("GET_pkg", i, n)),
                                !.cache[n] = Served(s, n)],
                     "none", i)
        ELSE find_package(h1, srcs, cands, k + 1, n)

\* sources = list(config_data['SOURCES'].keys()), or [source_override]
candidate_sources(srcs, o) == IF o = 0 THEN [i \in DOMAIN srcs |-> i] ELSE <<o>>

\* tarfile.extractall into the install root: files are written over what is
\* there, entries already present stay
extract(tree, a) ==
    [present |-> TRUE,
     version |-> a.version,
     inner |-> tree.inner \cup a.inner,
     etc |-> IF "etc" \in a.inner THEN tree.etc \cup a.etc ELSE tree.etc]

\* Lines 221-235: initialise a missing store, read the extracted metadata's
\* version and create the INSTALLED entry
MutRecordAdvertised(h, srcs, i, n) ==
    LET h1 == IF h.db.exists THEN h
              ELSE [h EXCEPT !.db = init_package_database(h.db),
                             !.log = Append(h.log, Ev("init_db", 0, <<>>))]
        out == package_database_api(h1.db, "create", "INSTALLED", n,
                                    Get(Items(srcs[i].db, "AVAILABLE"), n))
    IN  HomeOut([h1 EXCEPT !.db = out.file,
                           !.log = Append(h1.log, Ev("db_create", 0, n))],
                Returned(TRUE))

record_installed(h, srcs, i, n) ==
    LET h1 == IF h.db.exists THEN h
              ELSE [h EXCEPT !.db = init_package_database(h.db),
                             !.log = Append(h.log, Ev("init_db", 0, <<>>))]
        out == package_database_api(h1.db, "create", "INSTALLED", n, h1.root[n].version)
    IN  IF out.ret.exc # "none" THEN HomeOut(h1, out.ret)
        ELSE HomeOut([h1 EXCEPT !.db = out.file,
                                !.log = Append(h1.log, Ev("db_create", 0, n))],
                     Returned(TRUE))

\* Lines 203-219: find the executable and link it into ~/bin
MutLinkAny(h, srcs, i, n) ==
    IF "etc" \notin h.root[n].inner \/ "lib" \notin h.root[n].inner
    THEN HomeOut(h, Raised("ValueError"))
    ELSE
    LET rest == h.root[n].inner \ {"etc", "lib"}
    IN  IF rest = {} THEN HomeOut(h, Returned(FALSE))
        ELSE IF path_exists(h.bin[n], h.root[n])
        THEN record_installed(h, srcs, i, n)
        ELSE IF h.bin[n].kind # "none"
        THEN HomeOut(h, Raised("FileExistsError"))
        ELSE record_installed(
                 [h EXCEPT !.bin[n] = LinkTo("pkg", CHOOSE e \in rest : TRUE),
                           !.log = Append(h.log, Ev("symlink", 0, n))],
                 srcs, i, n)

link_executable(h, srcs, i, n) ==
    IF "etc" \notin h.root[n].inner \/ "lib" \notin h.root[n].inner
    THEN HomeOut(h, Raised("ValueError"))
    ELSE
    LET rest == h.root[n].inner \ {"etc", "lib"}
    IN  IF Cardinality(rest) # 1 THEN HomeOut(h, Returned(FALSE))
        ELSE IF path_exists(h.bin[n], h.root[n])
        THEN record_installed(h, srcs, i, n)
        ELSE IF h.bin[n].kind # "none"
        THEN HomeOut(h, Raised("FileExistsError"))
        ELSE record_installed(
                 [h EXCEPT !.bin[n] = LinkTo("pkg", CHOOSE e \in rest : TRUE),
                           !.log = Append(h.log, Ev("symlink", 0, n))],
                 srcs, i, n)

\* Lines 196-201: open the cached download and extract it
unpack(h, srcs, i, n) ==
    IF h.cache[n].kind # "tar" THEN HomeOut(h, Raised("ReadError"))
    ELSE link_executable(
             [h EXCEPT !.root[n] = extract(h.root[n], h.cache[n]),
                       !.log = Append(h.log, Ev("extract", 0, n))],
             srcs, i, n)

\* Lines 144-149: is the package already under INSTALLED of an existing store?
MutNoInstalledCheck(h, n) == Returned(FALSE)

already_installed(h, n) ==
    IF h.db.exists
    THEN package_database_api(h.db, "check", "INSTALLED", n, Str_0).ret
    ELSE Returned(FALSE)

install_package(h0, srcs, n, o) ==
    LET h == [h0 EXCEPT !.log = <<>>]
        chk == already_installed(h, n)
    IN  IF chk.exc # "none" THEN HomeOut(h, chk)
        ELSE IF chk.b THEN HomeOut(h, Returned(FALSE))
        ELSE
        LET h1 == ensure_dirs(h)
            f == find_package(h1, srcs, candidate_sources(srcs, o), 1, n)
        IN  CASE f.st = "raised" -> HomeOut(f.home, Raised(f.exc))
              [] f.st = "notfound" -> HomeOut(f.home, Returned(FALSE))
              [] f.st = "found" ->
                   unpack(f.home, srcs, f.idx, n)

-----------------------------------------------------------------------------
(* remove_package *)

\* Lines 259-274: the record is deleted, then the tree, the cached archive
\* and the link
MutFilesBeforeRecord(h, n) ==
    IF ~h.root[n].present THEN HomeOut(h, Raised("FileNotFoundError"))
    ELSE
    LET h1 == [h EXCEPT !.root[n] = NoTree, !.cache[n] = NoArchive,
                        !.log = h.log \o <<Ev("rmtree", 0, n), Ev("rm_cache", 0, n)>>]
        h2 == IF path_islink(h1.bin[n])
              THEN [h1 EXCEPT !.bin[n] = NoEntry, !.log = Append(h1.log, Ev("unlink", 0, n))]
              ELSE h1
        out == package_database_api(h2.db, "delete", "INSTALLED", n, Str_0)
    IN  HomeOut([h2 EXCEPT !.db = out.file, !.log = Append(h2.log, Ev("db_delete", 0, n))],
                Returned(TRUE))

MutKeepCache(h, n) ==
    LET out == package_database_api(h.db, "delete", "INSTALLED", n, Str_0)
        h1 == [h EXCEPT !.db = out.file, !.log = Append(h.log, Ev("db_delete", 0, n))]
        h2 == [h1 EXCEPT !.root[n] = NoTree, !.log = Append(h1.log, Ev("rmtree", 0, n))]
        h4 == IF path_islink(h2.bin[n])
              THEN [h2 EXCEPT !.bin[n] = NoEntry,
                              !.log = Append(h2.log, Ev("unlink", 0, n))]
              ELSE h2
    IN  HomeOut(h4, Returned(TRUE))

remove_files(h, n) ==
    LET out == package_database_api(h.db, "delete", "INSTALLED", n, Str_0)
        h1 == [h EXCEPT !.db = out.file, !.log = Append(h.log, Ev("db_delete", 0, n))]
    IN  IF n # <<>> /\ ~h1.root[n].present THEN HomeOut(h1, Raised("FileNotFoundError"))
        ELSE
        LET h2 == IF n # <<>>
                  THEN [h1 EXCEPT !.root[n] = NoTree,
                                  !.log = Append(h1.log, Ev("rmtree", 0, n))]
                  ELSE h1
            h3 == IF h2.cache[n].kind # "none"
                  THEN [h2 EXCEPT !.cache[n] = NoArchive,
                                  !.log = Append(h2.log, Ev("rm_cache", 0, n))]
                  ELSE h2
            h4 == IF path_islink(h3.bin[n])
                  THEN [h3 EXCEPT !.bin[n] = NoEntry,
                                  !.log = Append(h3.log, Ev("unlink", 0, n))]
                  ELSE h3
        IN  HomeOut(h4, Returned(TRUE))

MutRemoveUnchecked(h0, n) ==
    IF n = <<>> THEN HomeOut([h0 EXCEPT !.log = <<>>], Returned(FALSE))
    ELSE remove_files([h0 EXCEPT !.log = <<>>], n)

remove_package(h0, n) ==
    LET h == [h0 EXCEPT !.log = <<>>]
    IN  IF ~h.db.exists THEN HomeOut(h, Returned(FALSE))
        ELSE
        LET chk == package_database_api(h.db, "check", "INSTALLED", n, Str_0).ret
        IN  IF chk.exc # "none" THEN HomeOut(h, chk)
            ELSE IF ~chk.b THEN HomeOut(h, Returned(FALSE))
            ELSE remove_files(h, n)

-----------------------------------------------------------------------------
(* Spec: install_package and remove_package on one home directory *)

\* How many sources settings.conf lists
NumSources == 2

GoodInner == {"etc", "lib", "run"}

Repo(status, avail, pkgs) ==
    [status |-> status,
     db |-> File(<< [name |-> "INSTALLED", items |-> <<>>],
                    [name |-> "AVAILABLE", items |-> avail] >>),
     pkgs |-> pkgs]

NoPkgs == [n \in Names |-> NoArchive]

\* What a configured URL may serve.  A repository is kept by update_repo from
\* archives made by create_package, which checks the metadata and not the
\* layout; its AVAILABLE version can be above the archive's (update_repo never
\* lowers a version).
RepoUniverse ==
    { Repo("unreachable", <<>>, NoPkgs),
      Repo("reset", <<>>, NoPkgs),
      Repo("up", <<>>, NoPkgs),
      Repo("up", << <<Str_p, Str_1_0>>, <<Str_q, Str_1_0>> >>,
           [n \in Names |-> Archive(Str_1_0, GoodInner, {"conf"})]),
      Repo("up", << <<Str_p, Str_9_0>> >>,
           [NoPkgs EXCEPT ![Str_p] = Archive(Str_9_0, GoodInner, {})]),
      Repo("up", << <<Str_p, Str_10_0>> >>,
           [NoPkgs EXCEPT ![Str_p] = Archive(Str_1_0, GoodInner, {})]),
      Repo("up", << <<Str_q, Str_9_0>>, <<Str_p, Str_1_0>> >>,
           [NoPkgs EXCEPT ![Str_q] = Archive(Str_9_0, {"etc", "lib"}, {}),
                          ![Str_p] = Archive(Str_1_0, {"etc", "lib", "run", "tool"}, {})]) }

\* What may already be at ~/bin/<name> before hkg is first used
PreBinEntries == {NoEntry, FileEntry, LinkTo("elsewhere", ""), LinkTo("nowhere", "")}

Home == [db |-> db, dirs |-> dirs, cache |-> cache, root |-> root, bin |-> bin,
         temp |-> temp, log |-> log]

SetHome(h) ==
    /\ db' = h.db
    /\ dirs' = h.dirs
    /\ cache' = h.cache
    /\ root' = h.root
    /\ bin' = h.bin
    /\ temp' = h.temp
    /\ log' = h.log

Init ==
    /\ db = NoFile
    /\ cache = [n \in Names |-> NoArchive]
    /\ root = [n \in Names |-> NoTree]
    /\ bin \in [Names -> PreBinEntries]
    /\ Cardinality({n \in Names : bin[n] # NoEntry}) <= 1
    /\ dirs = IF \E n \in Names : bin[n] # NoEntry THEN {"bin"} ELSE {}
    /\ \E k \in 0..NumSources : sources \in [1..k -> RepoUniverse]
    /\ repoDb = NoFile
    /\ repoDir = <<>>
    /\ temp = NoTemp
    /\ srcDir = NoSourceTree
    /\ config = NoFile
    /\ procs = <<>>
    /\ call = NoCall
    /\ result = Returned(FALSE)
    /\ log = <<>>

\* parse_args, lines 113-114: a missing local store is created before any command
ParseArgs ==
    /\ ~db.exists
    /\ db' = init_package_database(db)
    /\ dirs' = dirs \cup {"root"}
    /\ call' = OpCall("parse_args", <<>>, 0)
    /\ result' = Returned(TRUE)
    /\ log' = <<Ev("init_db", 0, <<>>)>>
    /\ UNCHANGED <<cache, root, bin, sources, repoDb, repoDir, temp, srcDir, config, procs>>

Install ==
    \E n \in Names, o \in 0..Len(sources) :
        LET out == install_package(Home, sources, n, o)
        IN  /\ SetHome(out.home)
            /\ call' = OpCall("install_package", n, o)
            /\ result' = out.ret
            /\ UNCHANGED <<sources, repoDb, repoDir, srcDir, config, procs>>

Remove ==
    \E n \in Names \cup {<<>>} :
        LET out == remove_package(Home, n)
        IN  /\ SetHome(out.home)
            /\ call' = OpCall("remove_package", n, 0)
            /\ result' = out.ret
            /\ UNCHANGED <<sources, repoDb, repoDir, srcDir, config, procs>>

Next == ParseArgs \/ Install \/ Remove

Spec == Init /\ [][Next]_vars

-----------------------------------------------------------------------------
(* Properties of install_package and remove_package *)

Installed(f, n) ==
    f.exists /\ HasSection(f, "INSTALLED") /\ HasKey(Items(f, "INSTALLED"), n)

Advertises(s, n) ==
    s.status = "up" /\ HasSection(s.db, "AVAILABLE") /\ HasKey(Items(s.db, "AVAILABLE"), n)

InstallReturnedTrue == call.op = "install_package" /\ IsTrue(result)

HasEvent(l, ev) == \E i \in DOMAIN l : l[i].ev = ev

EventIdx(l, ev) == CHOOSE i \in DOMAIN l : l[i].ev = ev

\* The source the last install downloaded from
DownloadedFrom == log[EventIdx(log, "GET_pkg")].src

\* C2: after install_package returns true for p, INSTALLED[p] is the version
\* in the metadata of the downloaded archive, the cached archive and the
\* extracted tree exist, and a store that did not exist before the call was
\* initialised before the entry was created.
C2_InstallRecordsMetadataVersion ==
    [][ InstallReturnedTrue' =>
          /\ HasBothSections(db')
          /\ Installed(db', call'.name)
          /\ cache'[call'.name].kind = "tar"
          /\ root'[call'.name].present
          /\ Get(Items(db', "INSTALLED"), call'.name) = cache'[call'.name].version
          /\ root'[call'.name].version = cache'[call'.name].version
          /\ cache'[call'.name] = Served(sources[DownloadedFrom'], call'.name)
          /\ ~db.exists =>
                /\ HasEvent(log', "init_db")
                /\ EventIdx(log', "init_db") < EventIdx(log', "db_create") ]_vars

\* An install into a home without a store, from a source that advertises a
\* version other than the one in its archive's metadata
C2_Witness ==
    /\ InstallReturnedTrue
    /\ HasEvent(log, "init_db")
    /\ Get(Items(db, "INSTALLED"), call.name) = Str_1_0
    /\ Get(Items(sources[DownloadedFrom].db, "AVAILABLE"), call.name) = Str_10_0

HasPkgLink(n) == bin[n].kind = "symlink" /\ bin[n].target = "pkg"

NothingLeftOf(n) ==
    /\ ~Installed(db, n)
    /\ ~root[n].present
    /\ cache[n].kind = "none"
    /\ bin[n] = NoEntry

\* C3: an install of p that succeeds with the name p free in the bin directory
\* creates INSTALLED[p], a symbolic link named p and the cache file p.hkg; a
\* following remove_package(p) returns true and deletes all three and the
\* extracted tree.
C3_InstallRemoveRoundTrip ==
    [][ /\ (InstallReturnedTrue' /\ bin[call'.name] = NoEntry) =>
              /\ Installed(db', call'.name)
              /\ HasPkgLink(call.name)'
              /\ path_exists(bin'[call'.name], root'[call'.name])
              /\ cache'[call'.name].kind = "tar"
        /\ (/\ InstallReturnedTrue /\ HasPkgLink(call.name)
            /\ call'.op = "remove_package" /\ call'.name = call.name) =>
              /\ IsTrue(result')
              /\ NothingLeftOf(call.name)' ]_vars

\* A remove that deleted the record, the tree, the cached archive and the link
C3_Witness ==
    /\ call.op = "remove_package" /\ IsTrue(result)
    /\ call.name \in Names
    /\ NothingLeftOf(call.name)
    /\ \A ev \in {"db_delete", "rmtree", "rm_cache", "unlink"} : HasEvent(log, ev)

\* C4: install_package of a name already under INSTALLED in an existing store
\* returns false, leaves the store, the directories, the cache, the install
\* root and the bin directory as they were, and contacts no source.
C4_DoubleInstallRejected ==
    [][ (call'.op = "install_package" /\ Installed(db, call'.name)) =>
          /\ IsFalse(result')
          /\ UNCHANGED <<db, dirs, cache, root, bin>>
          /\ log' = <<>> ]_vars

C4_Witness ==
    /\ call.op = "install_package" /\ IsFalse(result)
    /\ Installed(db, call.name)
    /\ log = <<>>
    /\ \E i \in DOMAIN sources : Advertises(sources[i], call.name)

NoCandidateHas(n, o) ==
    LET cands == candidate_sources(sources, o)
    IN  \A j \in DOMAIN cands : ~Advertises(sources[cands[j]], n)

\* C5: when no candidate source's AVAILABLE section has the name (every source
\* unreachable and an empty source list included), install_package returns
\* false and creates no cache file, tree, link or INSTALLED entry.
C5_NotFoundReturnsFalse ==
    [][ (/\ call'.op = "install_package"
         /\ ~Installed(db, call'.name)
         /\ NoCandidateHas(call'.name, call'.src)) =>
          /\ IsFalse(result')
          /\ UNCHANGED <<db, cache, root, bin>> ]_vars

\* The GET requests of the last call, as the sources they went to
Fetches(l) == SelectSeq(l, LAMBDA e : e.ev \in {"GET_db", "GET_pkg"})

FirstAdvertising(cands, n) ==
    CHOOSE j \in DOMAIN cands :
        /\ Advertises(sources[cands[j]], n)
        /\ \A k \in 1..(j - 1) : ~Advertises(sources[cands[k]], n)

\* C6: install_package asks the candidate sources for packages.hdb in
\* configuration order (with an override: the override alone), downloads the
\* archive from the first one whose AVAILABLE section has the name, and
\* contacts no source after it, whatever version a later source advertises.
C6_FirstMatchWins ==
    (call.op = "install_package" /\ log # <<>>) =>
        LET cands == candidate_sources(sources, call.src)
            f == Fetches(log)
            dbs == SelectSeq(f, LAMBDA e : e.ev = "GET_db")
        IN  /\ Len(dbs) <= Len(cands)
            /\ \A j \in DOMAIN dbs : dbs[j].src = cands[j]
            /\ \A j \in DOMAIN f :
                 f[j].ev = "GET_pkg" =>
                   /\ j = Len(f)
                   /\ j = Len(dbs) + 1
                   /\ f[j].src = cands[FirstAdvertising(cands, call.name)]
                   /\ f[j].src = dbs[Len(dbs)].src
            /\ (/\ result.exc = "none"
                /\ \E j \in DOMAIN cands : Advertises(sources[cands[j]], call.name))
               => HasEvent(log, "GET_pkg")

\* Two sources have the package, the later one at a string-greater version;
\* the archive came from the first and the second was never asked
C6_Witness ==
    /\ InstallReturnedTrue /\ call.src = 0
    /\ Len(sources) = 2
    /\ Advertises(sources[1], call.name) /\ Advertises(sources[2], call.name)
    /\ StrGreater(Get(Items(sources[2].db, "AVAILABLE"), call.name),
                  Get(Items(sources[1].db, "AVAILABLE"), call.name))
    /\ DownloadedFrom = 1
    /\ \A i \in DOMAIN log : log[i].src # 2

\* C7: when something already is at ~/bin/<name>, install_package leaves it
\* untouched, creates no link, records the package under INSTALLED and
\* returns true.
C7_OccupiedNameStaysUnlinked ==
    [][ (/\ call'.op = "install_package"
         /\ bin[call'.name] # NoEntry
         /\ HasEvent(log', "extract")
         /\ Cardinality(root'[call'.name].inner \ {"etc", "lib"}) = 1) =>
          /\ IsTrue(result')
          /\ bin'[call'.name] = bin[call'.name]
          /\ Installed(db', call'.name) ]_vars

\* C8: remove_package returns false and changes nothing when the local store
\* does not exist, and when it exists but the name is not under INSTALLED.
C8_RemoveRejected ==
    [][ (call'.op = "remove_package" /\ ~Installed(db, call'.name)) =>
          /\ IsFalse(result')
          /\ UNCHANGED <<db, dirs, cache, root, bin>>
          /\ log' = <<>> ]_vars

\* A rejected remove of a name whose files a failed install left behind
C8_Witness ==
    /\ call.op = "remove_package" /\ IsFalse(result)
    /\ call.name \in Names
    /\ db.exists
    /\ ~Installed(db, call.name)
    /\ root[call.name].present /\ cache[call.name].kind = "tar"

-----------------------------------------------------------------------------
(* update_repo *)

\* name[-4:] and name[:-4]
Last4(name) ==
    IF Len(name) <= 4 THEN name ELSE SubSeq(name, Len(name) - 3, Len(name))

DropLast4(name) == IF Len(name) <= 4 THEN <<>> ELSE SubSeq(name, 1, Len(name) - 4)

RemoveAt(l, i) == [j \in 1..(Len(l) - 1) |-> IF j < i THEN l[j] ELSE l[j + 1]]

RepoOut(f, r, l) == [file |-> f, ret |-> r, log |-> l]

\* Lines 477-480:  for i in range(0, len(repo_pkg_list)) : the entries that
\* do not end in '.hkg' are removed from the list the loop is indexing.
\* i counts from 1 here; n is the length the list had when the loop began.
RECURSIVE drop_non_packages(_, _, _)
drop_non_packages(l, i, n) ==
    IF i > n THEN [exc |-> "none", list |-> l]
    ELSE IF i > Len(l) THEN [exc |-> "IndexError", list |-> l]
    ELSE IF Last4(l[i].name) # Str_hkg
    THEN drop_non_packages(RemoveAt(l, i), i + 1, n)
    ELSE drop_non_packages(l, i + 1, n)

\* Lines 486-493: the metadata version of every listed archive, keyed by the
\* file name without its suffix, in list order
RECURSIVE read_versions(_, _, _)
MutSkipUnreadable(l, i, dict) ==
    LET ok == SelectSeq(l, LAMBDA e : e.content.kind = "tar")
    IN  [exc |-> "none",
         dict |-> [j \in DOMAIN ok |-> <<DropLast4(ok[j].name), ok[j].content.version>>]]

read_versions(l, i, dict) ==
    IF i > Len(l) THEN [exc |-> "none", dict |-> dict]
    ELSE IF l[i].content.kind # "tar" THEN [exc |-> "ReadError", dict |-> dict]
    ELSE read_versions(l, i + 1, Put(dict, DropLast4(l[i].name), l[i].content.version))

\* repo_pkg_version_dict[i] > stored version
MutNumericNewer(new, old) ==
    LET rank(v) == CASE v = Str_1_0 -> 1 [] v = Str_9_0 -> 9 [] v = Str_10_0 -> 10
    IN  rank(new) > rank(old)

is_newer(new, old) == StrGreater(new, old)

\* Lines 495-508: create the names AVAILABLE lacks, update those whose archive
\* version is greater
RECURSIVE add_and_update(_, _, _, _)
add_and_update(f, dict, i, l) ==
    IF i > Len(dict) THEN RepoOut(f, Returned(TRUE), l)
    ELSE
    LET n == dict[i][1]
        v == dict[i][2]
        chk == package_database_api(f, "check", "AVAILABLE", n, Str_0).ret
    IN  IF chk.exc # "none" THEN RepoOut(f, chk, l)
        ELSE IF ~chk.b
        THEN add_and_update(package_database_api(f, "create", "AVAILABLE", n, v).file,
                            dict, i + 1, Append(l, Ev("db_create", 0, n)))
        ELSE
        LET old == package_database_api(f, "version", "AVAILABLE", n, Str_0).ret
        IN  IF old.exc # "none" THEN RepoOut(f, old, l)
            ELSE IF is_newer(v, old.s)
            THEN add_and_update(package_database_api(f, "update", "AVAILABLE", n, v).file,
                                dict, i + 1, Append(l, Ev("db_update", 0, n)))
            ELSE add_and_update(f, dict, i + 1, l)

\* Lines 510-516: delete the AVAILABLE names that have no archive.  The keys
\* are listed once, before the first delete.
RECURSIVE delete_stale(_, _, _, _, _)
MutKeepStale(f, keys, dict, i, l) == RepoOut(f, Returned(TRUE), l)

delete_stale(f, keys, dict, i, l) ==
    IF i > Len(keys) THEN RepoOut(f, Returned(TRUE), l)
    ELSE IF ~HasKey(dict, keys[i])
    THEN delete_stale(package_database_api(f, "delete", "AVAILABLE", keys[i], Str_0).file,
                      keys, dict, i + 1, Append(l, Ev("db_delete", 0, keys[i])))
    ELSE delete_stale(f, keys, dict, i + 1, l)

\* update_repo(repo_location); listing is os.listdir(repo_location) without
\* 'packages.hdb', in the order the system returned it
MutNoStoreCheck(f, listing) ==
    RepoOut(IF f.exists THEN f ELSE File(SkeletonSections), Returned(TRUE), <<>>)

update_repo(f, listing) ==
    IF ~f.exists THEN RepoOut(f, Returned(FALSE), <<>>)
    ELSE
    LET kept == IF Len(listing) > 0
                THEN drop_non_packages(listing, 1, Len(listing))
                ELSE [exc |-> "none", list |-> listing]
    IN  IF kept.exc # "none" THEN RepoOut(f, Raised(kept.exc), <<>>)
        ELSE
        LET rd == read_versions(kept.list, 1, <<>>)
        IN  IF rd.exc # "none" THEN RepoOut(f, Raised(rd.exc), <<>>)
            ELSE
            LET au == add_and_update(f, rd.dict, 1, <<>>)
            IN  IF au.ret.exc # "none" THEN au
                ELSE IF ~Parses(au.file)
                THEN RepoOut(au.file, Raised("DuplicateSectionError"), au.log)
                ELSE IF ~HasSection(au.file, "AVAILABLE")
                THEN RepoOut(au.file, Raised("KeyError"), au.log)
                ELSE delete_stale(au.file, Keys(Items(au.file, "AVAILABLE")), rd.dict,
                                  1, au.log)

-----------------------------------------------------------------------------
(* SpecRepo: a repository directory, its maintainer and update_repo *)

FileName_p == Str_p \o Str_hkg
FileName_q == Str_q \o Str_hkg

PackageFiles == {FileName_p, FileName_q}
OtherFiles == {Str_README, Str_notes}
RepoFiles == PackageFiles \cup OtherFiles

\* What the maintainer may put under a name: an archive made by
\* create_package at some version or a file that is no archive
Contents(name) ==
    IF name \in PackageFiles
    THEN {Archive(v, GoodInner, {}) : v \in Versions} \cup {NotTar}
    ELSE {NotTar}

Present(dir) == {name \in RepoFiles : dir[name].kind # "none"}

\* The archives of the directory, by package name
ArchiveNames(dir) == {DropLast4(name) : name \in {x \in Present(dir) : Last4(x) = Str_hkg}}

ArchiveOf(dir, n) == dir[n \o Str_hkg]

\* Every order os.listdir may return the entries in
Listings(dir) ==
    LET S == Present(dir)
        k == Cardinality(S)
    IN  { [i \in 1..k |-> [name |-> o[i], content |-> dir[o[i]]]] :
            o \in {f \in [1..k -> S] : \A i, j \in 1..k : f[i] = f[j] => i = j} }

RepoIdle ==
    /\ temp = NoTemp
    /\ srcDir = NoSourceTree
    /\ config = NoFile
    /\ procs = <<>>
    /\ db = NoFile
    /\ dirs = {}
    /\ cache = <<>>
    /\ root = <<>>
    /\ bin = <<>>
    /\ sources = <<>>

RepoInit ==
    /\ RepoIdle
    /\ repoDb = NoFile
    /\ repoDir = [name \in RepoFiles |-> NoArchive]
    /\ call = NoCall
    /\ result = Returned(FALSE)
    /\ log = <<>>

\* create_repo(repo_location)
RepoCreate ==
    /\ Len(repoDb.sections) < 2 * (MaxReinit + 1)
    /\ repoDb' = init_package_database(repoDb)
    /\ call' = OpCall("create_repo", <<>>, 0)
    /\ result' = Returned(TRUE)
    /\ log' = <<>>
    /\ UNCHANGED <<db, dirs, cache, root, bin, sources, repoDir, temp, srcDir, config, procs>>

\* The maintainer copies a file into the repository directory, or replaces one
RepoPut ==
    \E name \in RepoFiles : \E c \in Contents(name) :
        /\ repoDir[name] # c
        /\ repoDir' = [repoDir EXCEPT ![name] = c]
        /\ call' = OpCall("copy_file", name, 0)
        /\ result' = Returned(TRUE)
        /\ log' = <<>>
        /\ UNCHANGED <<db, dirs, cache, root, bin, sources, repoDb, temp, srcDir, config, procs>>

\* The maintainer deletes a file from the repository directory
RepoDelete ==
    \E name \in Present(repoDir) :
        /\ repoDir' = [repoDir EXCEPT ![name] = NoArchive]
        /\ call' = OpCall("delete_file", name, 0)
        /\ result' = Returned(TRUE)
        /\ log' = <<>>
        /\ UNCHANGED <<db, dirs, cache, root, bin, sources, repoDb, temp, srcDir, config, procs>>

\* update_repo(repo_location)
RepoUpdate ==
    \E listing \in Listings(repoDir) :
        LET out == update_repo(repoDb, listing)
        IN  /\ repoDb' = out.file
            /\ call' = OpCall("update_repo", <<>>, 0)
            /\ result' = out.ret
            /\ log' = out.log
            /\ UNCHANGED <<db, dirs, cache, root, bin, sources, repoDir, temp, srcDir, config, procs>>

RepoNext == RepoCreate \/ RepoPut \/ RepoDelete \/ RepoUpdate

SpecRepo == RepoInit /\ [][RepoNext]_vars

UpdateRepoReturnedTrue == call.op = "update_repo" /\ IsTrue(result)

Available(f) == Items(f, "AVAILABLE")

\* C9: after update_repo returns true, the keys of AVAILABLE are exactly the
\* archive base names in the repository directory: a name AVAILABLE lacked was
\* created with the archive's metadata version, and a name without an archive
\* was deleted.
C9_AvailableMatchesArchives ==
    [][ UpdateRepoReturnedTrue' =>
          /\ KeySet(Available(repoDb')) = ArchiveNames(repoDir)
          /\ \A n \in ArchiveNames(repoDir) :
                ~HasKey(Available(repoDb), n) =>
                    /\ Get(Available(repoDb'), n) = ArchiveOf(repoDir, n).version
                    /\ \E i \in DOMAIN log' : log'[i] = Ev("db_create", 0, n)
          /\ \A n \in KeySet(Available(repoDb)) \ ArchiveNames(repoDir) :
                \E i \in DOMAIN log' : log'[i] = Ev("db_delete", 0, n) ]_vars

\* A pass that created one name and deleted another, in a directory that
\* also holds a file that is no archive
C9_Witness ==
    /\ UpdateRepoReturnedTrue
    /\ HasEvent(log, "db_create") /\ HasEvent(log, "db_delete")
    /\ Present(repoDir) \cap OtherFiles # {}
    /\ Len(Available(repoDb)) = 1

C11_SecondPassWritesNothing ==
    [][ (call.op = "update_repo" /\ result.exc = "none" /\ call'.op = "update_repo") =>
          /\ repoDb' = repoDb
          /\ log' = <<>> ]_vars

\* A pass that wrote nothing although the directory holds archives and
\* AVAILABLE lists them, one of them below its archive's numeric version
C11_Witness ==
    /\ UpdateRepoReturnedTrue
    /\ log = <<>>
    /\ ArchiveNames(repoDir) # {}
    /\ KeySet(Available(repoDb)) = ArchiveNames(repoDir)
    /\ \E n \in ArchiveNames(repoDir) :
          Get(Available(repoDb), n) # ArchiveOf(repoDir, n).version

\* C12: update_repo on a directory that has no packages.hdb returns False,
\* creates no store there and changes nothing in the directory.
C12_NoStoreReturnsFalse ==
    [][ (call'.op = "update_repo" /\ ~repoDb.exists) =>
          /\ IsFalse(result')
          /\ repoDb' = NoFile
          /\ repoDir' = repoDir
          /\ log' = <<>> ]_vars

\* A refused pass over a directory that holds an archive and another file
C12_Witness ==
    /\ call.op = "update_repo"
    /\ IsFalse(result)
    /\ ~repoDb.exists
    /\ ArchiveNames(repoDir) # {}
    /\ Present(repoDir) \cap OtherFiles # {}

-----------------------------------------------------------------------------
(* The package database API on absent names *)

\* An API call of one action on a section of a store that has both sections
ApiCallOn(c, f, action) ==
    /\ c.op = "api" /\ c.action = action
    /\ c.section \in SectionNames
    /\ HasBothSections(f)

\* No option of the section is the name, by the parser's option-name rule
Absent(f, section, name) == ~HasKey(Items(f, section), optionxform(name))

\* C16: delete(S,n) on a store where n is not a key of section S returns True
\* and leaves the contents of both sections exactly as they were.
C16_DeleteAbsentIsNoOp ==
    [][ (ApiCallOn(call', db, "delete") /\ Absent(db, call'.section, call'.name)) =>
          /\ IsTrue(result')
          /\ db' = db ]_vars

\* A delete of a name the section does not hold, on a store whose sections
\* both hold other entries
C16_Witness ==
    /\ ApiCallOn(call, db, "delete")
    /\ IsTrue(result)
    /\ Absent(db, call.section, call.name)
    /\ \A s \in SectionNames : Len(Items(db, s)) >= 1

\* C17: version(S,n) on a store where n is not a key of section S ends with
\* a failure result handed back to the caller, not with an exception, and
\* leaves the store unchanged.
C17_VersionAbsentReturnsFailure ==
    [][ (ApiCallOn(call', db, "version") /\ Absent(db, call'.section, call'.name)) =>
          /\ result'.exc = "none"
          /\ db' = db ]_vars

-----------------------------------------------------------------------------
(* validate_package_database *)

Str_5 == <<53>>
Str_dot5 == <<46, 53>>
Str_5dot == <<53, 46>>
Str_1_2_3 == <<49, 46, 50, 46, 51>>
Str_1_a == <<49, 46, 97>>
Str_p1 == <<112, 49>>
Str_pq == <<112, 113>>

IsUpperChar(c) == c >= 65 /\ c <= 90
IsLowerChar(c) == c >= 97 /\ c <= 122
IsDigitChar(c) == c >= 48 /\ c <= 57

\* str.islower(): at least one cased character and no upper-case one
islower(s) ==
    /\ \E i \in DOMAIN s : IsLowerChar(s[i]) \/ IsUpperChar(s[i])
    /\ \A i \in DOMAIN s : ~IsUpperChar(s[i])

\* str.isalpha(): not empty and letters only
isalpha(s) == s # <<>> /\ \A i \in DOMAIN s : IsLowerChar(s[i]) \/ IsUpperChar(s[i])

\* str.isdigit(): not empty and digits only
isdigit(s) == s # <<>> /\ \A i \in DOMAIN s : IsDigitChar(s[i])

\* str.replace('.', '', 1): the first '.' is dropped
replace_first_dot(s) ==
    LET dots == {i \in DOMAIN s : s[i] = 46}
    IN  IF dots = {} THEN s
        ELSE LET k == CHOOSE i \in dots : \A j \in dots : i <= j
             IN  [i \in 1..(Len(s) - 1) |-> IF i < k THEN s[i] ELSE s[i + 1]]

\* ConfigParser.read on the text of a store: option names are lower-cased,
\* two options of one section with the same lower-cased name are a
\* DuplicateOptionError
DuplicateOption(f) ==
    \E s \in DOMAIN f.sections :
        \E i, j \in DOMAIN f.sections[s].items :
            /\ i # j
            /\ optionxform(f.sections[s].items[i][1]) = optionxform(f.sections[s].items[j][1])

read_sections(f) ==
    [s \in DOMAIN f.sections |->
        [name |-> f.sections[s].name,
         items |-> [i \in DOMAIN f.sections[s].items |->
                       << optionxform(f.sections[s].items[i][1]),
                          f.sections[s].items[i][2] >>]]]

\* Lines 741-744: package_ver.replace('.', '', 1).isdigit()
version_ok(v) == isdigit(replace_first_dot(v))

\* Lines 735-738: islower() and isalpha() on every key
name_ok(k) == islower(k) /\ isalpha(k)

validate_package_database(f) ==
    IF ~Parses(f) THEN Raised("DuplicateSectionError")
    ELSE IF DuplicateOption(f) THEN Raised("DuplicateOptionError")
    ELSE
    LET db_data == read_sections(f)
        names == {db_data[s].name : s \in DOMAIN db_data}
        both == {s \in DOMAIN db_data : db_data[s].name \in SectionNames}
    IN  Returned(/\ Len(db_data) = 2
                 /\ "INSTALLED" \in names /\ "AVAILABLE" \in names
                 /\ \A s \in both : \A i \in DOMAIN db_data[s].items :
                        name_ok(db_data[s].items[i][1])
                 /\ \A s \in both : \A i \in DOMAIN db_data[s].items :
                        version_ok(db_data[s].items[i][2]))

-----------------------------------------------------------------------------
(* SpecValidate: store files written by hand, and validate_package_database *)

\* Keys and values as a hand-written store may spell them
HandKeys == {Str_p, Str_P, Str_p1, Str_pq}
HandValues == {Str_1_0, Str_5, Str_dot5, Str_5dot, Str_1_2_3, Str_1_a, <<>>}

\* The options of one section: none, one, or a good one followed by another
HandItems ==
    {<<>>}
      \cup {<< <<k, v>> >> : k \in HandKeys, v \in HandValues}
      \cup {<< <<Str_q, Str_1_0>>, <<k, v>> >> : k \in {Str_p, Str_p1}, v \in {Str_1_0, Str_dot5}}

\* The section headers of the file, in file order
HandLayouts ==
    { <<"INSTALLED", "AVAILABLE">>, <<"AVAILABLE", "INSTALLED">>, <<"INSTALLED">>,
      <<"INSTALLED", "OPTIONS">>, <<"INSTALLED", "AVAILABLE", "OPTIONS">>,
      <<"INSTALLED", "AVAILABLE", "INSTALLED", "AVAILABLE">>, <<>> }

HandFiles ==
    { File([i \in DOMAIN lay |->
              [name |-> lay[i],
               items |-> IF i > 2 THEN <<>>
                         ELSE IF lay[i] = "INSTALLED" THEN inst
                         ELSE IF lay[i] = "AVAILABLE" THEN avail
                         ELSE <<>>]]) :
        lay \in HandLayouts, inst \in HandItems, avail \in HandItems }

ValidateInit ==
    /\ db \in HandFiles
    /\ call = NoCall
    /\ result = Returned(FALSE)
    /\ StoreIdle

\* validate_package_database(db_location)
Validate ==
    /\ call' = OpCall("validate_package_database", <<>>, 0)
    /\ result' = validate_package_database(db)
    /\ UNCHANGED <<db, dirs, cache, root, bin, sources, repoDb, repoDir, temp, srcDir, config, procs,
                 log>>

ValidateNext == Validate

SpecValidate == ValidateInit /\ [][ValidateNext]_vars

\* The version pattern: digits, optionally followed by one decimal point and
\* more digits
MatchesVersionPattern(v) ==
    \/ isdigit(v)
    \/ \E k \in DOMAIN v :
          /\ v[k] = 46
          /\ isdigit(SubSeq(v, 1, k - 1))
          /\ isdigit(SubSeq(v, k + 1, Len(v)))

LowercaseAlphabetic(k) == k # <<>> /\ \A i \in DOMAIN k : IsLowerChar(k[i])

\* The keys and the values of the store's sections, as the parser reads them
StoreKeys(f) ==
    UNION {KeySet(read_sections(f)[s].items) : s \in DOMAIN f.sections}

StoreValues(f) ==
    UNION {{f.sections[s].items[i][2] : i \in DOMAIN f.sections[s].items} :
              s \in DOMAIN f.sections}

\* C15: validate_package_database returns true if and only if the store has
\* exactly two sections, named INSTALLED and AVAILABLE, every key in both
\* sections is lower-case alphabetic, and every value is digits optionally
\* followed by one decimal point and more digits ('.5', '5.' and '1.2.3'
\* make it false).
C15_ValidIffWellFormed ==
    call.op = "validate_package_database" =>
        ( IsTrue(result) <=>
            /\ Len(db.sections) = 2
            /\ {db.sections[s].name : s \in DOMAIN db.sections} = SectionNames
            /\ \A k \in StoreKeys(db) : LowercaseAlphabetic(k)
            /\ \A v \in StoreValues(db) : MatchesVersionPattern(v) )

\* The store has the two sections and neither holds an entry
BothSectionsEmpty(f) ==
    /\ HasBothSections(f)
    /\ \A s \in SectionNames : Items(f, s) = <<>>

\* C18: whenever init_package_database or create_repo returns true for a
\* location, whether or not a packages.hdb already exists there, the store
\* at that location afterwards passes validate_package_database; for a
\* location with no prior store both sections are empty.
C18_InitLeavesValidStore ==
    [][ /\ (call'.op = "init_package_database" /\ IsTrue(result')) =>
              /\ IsTrue(validate_package_database(db'))
              /\ ~db.exists => BothSectionsEmpty(db')
        /\ (call'.op = "create_repo" /\ IsTrue(result')) =>
              /\ IsTrue(validate_package_database(repoDb'))
              /\ ~repoDb.exists => BothSectionsEmpty(repoDb') ]_vars

-----------------------------------------------------------------------------
(* SpecSource: package source trees and validate_source_directory *)

\* os.path.basename(os.path.normpath(source_location))
SourceBaseName == "testsrc"

\* The names an entry of the tree's top level and of <root>/<basename>/ may
\* have, and what an entry may be
TopNames == {"metadata", SourceBaseName, "stuff", "bad.file"}
InnerNames == {"etc", "lib", "program.bin", "bad.file", "stuff"}
EntryKinds == {"none", "file", "dir"}

\* os.listdir: the names of the entries that exist
listdir(d) == {name \in DOMAIN d : d[name] # "none"}

SourceTrees ==
    { [exists |-> TRUE, top |-> t, inner |-> i] :
        t \in [TopNames -> EntryKinds], i \in [InnerNames -> EntryKinds] }

\* Lines 575-578: the top level
check_status_1(tree) ==
    /\ Cardinality(listdir(tree.top)) = 2
    /\ "metadata" \in listdir(tree.top)
    /\ SourceBaseName \in listdir(tree.top)

\* Lines 582-585: the directory named like the root
check_status_2(tree) ==
    /\ Cardinality(listdir(tree.inner)) = 3
    /\ "etc" \in listdir(tree.inner)
    /\ "lib" \in listdir(tree.inner)

\* Line 582 lists <root>/<basename> whatever the first check found
validate_source_directory(tree) ==
    IF tree.top[SourceBaseName] = "none" THEN Raised("FileNotFoundError")
    ELSE IF tree.top[SourceBaseName] = "file" THEN Raised("NotADirectoryError")
    ELSE Returned(check_status_1(tree) /\ check_status_2(tree))

SourceInit ==
    /\ srcDir \in SourceTrees
    /\ srcDir.top[SourceBaseName] # "dir" => \A name \in InnerNames : srcDir.inner[name] = "none"
    /\ config = NoFile
    /\ procs = <<>>
    /\ db = NoFile
    /\ dirs = {}
    /\ cache = <<>>
    /\ root = <<>>
    /\ bin = <<>>
    /\ sources = <<>>
    /\ repoDb = NoFile
    /\ repoDir = <<>>
    /\ temp = NoTemp
    /\ call = NoCall
    /\ result = Returned(FALSE)
    /\ log = <<>>

\* validate_source_directory(source_location)
ValidateSource ==
    /\ call' = OpCall("validate_source_directory", <<>>, 0)
    /\ result' = validate_source_directory(srcDir)
    /\ UNCHANGED <<db, dirs, cache, root, bin, sources, repoDb, repoDir, temp, srcDir, config, procs, log>>

SourceNext == ValidateSource

SpecSource == SourceInit /\ [][SourceNext]_vars

\* The tree's top level is a file 'metadata' and a directory named like the
\* root, and that directory holds etc, lib and one more entry
WellFormedTree(tree) ==
    /\ listdir(tree.top) = {"metadata", SourceBaseName}
    /\ tree.top["metadata"] = "file"
    /\ tree.top[SourceBaseName] = "dir"
    /\ Cardinality(listdir(tree.inner)) = 3
    /\ {"etc", "lib"} \subseteq listdir(tree.inner)

\* C19: validate_source_directory returns true if and only if the top level
\* holds exactly two entries, a file named metadata and a directory with the
\* root's basename, and that directory holds exactly three entries, etc, lib
\* and one more; any extra entry at either level, a wrongly named or missing
\* inner directory, or a missing etc or lib yields false.
C19_ValidIffTreeWellFormed ==
    call.op = "validate_source_directory" =>
        result = Returned(WellFormedTree(srcDir))

-----------------------------------------------------------------------------
(* update_package *)

Str_all == <<97, 108, 108>>
Str_conf == <<99, 111, 110, 102>>
Str_hkg_old == <<46, 104, 107, 103, 95, 111, 108, 100>>

\* One pass of the loops: the home directory, the exception that ended it
\* and post_update_cleanup
UpOut(h, exc, cleanup) == [home |-> h, exc |-> exc, cleanup |-> cleanup]

\* A handler called from another one: its side effects follow the caller's
Nested(h, out) == [out EXCEPT !.home.log = h.log \o out.home.log]

\* The outcome of one call, computed once and handed to what follows it
Then(out, Rest(_)) == CHOOSE r \in {Rest(o) : o \in {out}} : TRUE

\* Lines 330-333: every file of the package's etc/ is moved to
\* ~/.cache/hkg/temp/<file>.hkg_old
stage_etc(h, p) ==
    [h EXCEPT !.dirs = h.dirs \cup {"cache"},
              !.temp = [exists |-> TRUE,
                        files |-> h.temp.files \cup
                                    {f \o Str_hkg_old : f \in h.root[p].etc}],
              !.root[p].etc = {},
              !.log = Append(h.log, Ev("stage", 0, p))]

\* Lines 341-347: every file of the staging directory is moved into the
\* package's etc/ under the name it has there, then the directory is deleted
MutRestoreNothing(h, p) ==
    UpOut([h EXCEPT !.temp = NoTemp, !.log = Append(h.log, Ev("restore", 0, p))],
          "none", TRUE)

restore_etc(h, p) ==
    IF ~h.temp.exists THEN UpOut(h, "FileNotFoundError", TRUE)
    ELSE IF h.temp.files # {} /\ ~(h.root[p].present /\ "etc" \in h.root[p].inner)
    THEN UpOut(h, "FileNotFoundError", TRUE)
    ELSE UpOut([h EXCEPT !.root[p].etc = h.root[p].etc \cup h.temp.files,
                         !.temp = NoTemp,
                         !.log = Append(h.log, Ev("restore", 0, p))],
               "none", TRUE)

\* Lines 321-347: stage, remove, install from source i, restore.  What
\* remove_package and install_package return is not looked at.
replace_package(h, srcs, p, i, flag, cleanup) ==
    IF ~(h.root[p].present /\ "etc" \in h.root[p].inner)
    THEN UpOut(h, "FileNotFoundError", cleanup)
    ELSE
    LET staging == h.root[p].etc # {} /\ ~flag
        c1 == cleanup \/ staging
        h1 == IF staging THEN stage_etc(h, p) ELSE h
    IN  Then(Nested(h1, remove_package(h1, p)), LAMBDA rm :
             IF rm.ret.exc # "none" THEN UpOut(rm.home, rm.ret.exc, c1)
             ELSE
             Then(Nested(rm.home, install_package(rm.home, srcs, p, i)), LAMBDA ins :
                  IF ins.ret.exc # "none" THEN UpOut(ins.home, ins.ret.exc, c1)
                  ELSE IF c1 THEN restore_etc(ins.home, p)
                  ELSE UpOut(ins.home, "none", c1)))

\* Line 320: remote_pkg_data['AVAILABLE'][p] > local_pkg_db['INSTALLED'][p]
MutAnyDifference(remote, local) == remote # local

needs_update(remote, local) == StrGreater(remote, local)

\* Lines 310-347: the loop over the sources for one package; local is the
\* store as it was read before the loops
RECURSIVE check_sources(_, _, _, _, _, _, _)
MutStopAfterUpdate(h, local, srcs, p, k, flag, cleanup) ==
    IF k > Len(srcs) THEN UpOut(h, "none", cleanup)
    ELSE
    LET s == srcs[k]
        h1 == [h EXCEPT !.log = Append(h.log, Ev("GET_db", k, <<>>))]
    IN  IF s.status # "up"
        THEN IF CaughtAsConnectionError(GetRaises(s.status))
             THEN check_sources(h1, local, srcs, p, k + 1, flag, cleanup)
             ELSE UpOut(h1, GetRaises(s.status), cleanup)
        ELSE IF ~Parses(s.db) THEN UpOut(h1, "DuplicateSectionError", cleanup)
        ELSE IF ~HasSection(s.db, "AVAILABLE") THEN UpOut(h1, "KeyError", cleanup)
        ELSE IF ~HasKey(Items(s.db, "AVAILABLE"), p)
        THEN check_sources(h1, local, srcs, p, k + 1, flag, cleanup)
        ELSE IF \/ ~HasSection(local, "INSTALLED")
                \/ ~HasKey(Items(local, "INSTALLED"), optionxform(p))
        THEN UpOut(h1, "KeyError", cleanup)
        ELSE IF ~needs_update(Get(Items(s.db, "AVAILABLE"), p),
                              Get(Items(local, "INSTALLED"), optionxform(p)))
        THEN check_sources(h1, local, srcs, p, k + 1, flag, cleanup)
        ELSE
        replace_package(h1, srcs, p, k, flag, cleanup)

check_sources(h, local, srcs, p, k, flag, cleanup) ==
    IF k > Len(srcs) THEN UpOut(h, "none", cleanup)
    ELSE
    LET s == srcs[k]
        h1 == [h EXCEPT !.log = Append(h.log, Ev("GET_db", k, <<>>))]
    IN  IF s.status # "up"
        THEN IF CaughtAsConnectionError(GetRaises(s.status))
             THEN check_sources(h1, local, srcs, p, k + 1, flag, cleanup)
             ELSE UpOut(h1, GetRaises(s.status), cleanup)
        ELSE IF ~Parses(s.db) THEN UpOut(h1, "DuplicateSectionError", cleanup)
        ELSE IF ~HasSection(s.db, "AVAILABLE") THEN UpOut(h1, "KeyError", cleanup)
        ELSE IF ~HasKey(Items(s.db, "AVAILABLE"), p)
        THEN check_sources(h1, local, srcs, p, k + 1, flag, cleanup)
        ELSE IF \/ ~HasSection(local, "INSTALLED")
                \/ ~HasKey(Items(local, "INSTALLED"), optionxform(p))
        THEN UpOut(h1, "KeyError", cleanup)
        ELSE IF ~needs_update(Get(Items(s.db, "AVAILABLE"), p),
                              Get(Items(local, "INSTALLED"), optionxform(p)))
        THEN check_sources(h1, local, srcs, p, k + 1, flag, cleanup)
        ELSE
        Then(replace_package(h1, srcs, p, k, flag, cleanup), LAMBDA r :
             IF r.exc # "none" THEN r
             ELSE check_sources(r.home, local, srcs, p, k + 1, flag, r.cleanup))

\* Lines 308-347: the loop over packages_to_check
RECURSIVE check_packages(_, _, _, _, _, _, _)
check_packages(h, local, srcs, todo, j, flag, cleanup) ==
    IF j > Len(todo) THEN UpOut(h, "none", cleanup)
    ELSE
    Then(check_sources(h, local, srcs, todo[j], 1, flag, cleanup), LAMBDA r :
         IF r.exc # "none" THEN r
         ELSE check_packages(r.home, local, srcs, todo, j + 1, flag, r.cleanup))

\* update_package(pkg_name, no_preserve_flag)
update_package(h0, srcs, name, flag) ==
    LET h == [h0 EXCEPT !.log = <<>>]
    IN  IF ~h.db.exists THEN HomeOut(h, Returned(FALSE))
        ELSE IF ~Parses(h.db) THEN HomeOut(h, Raised("DuplicateSectionError"))
        ELSE IF name = Str_all /\ ~HasSection(h.db, "INSTALLED")
        THEN HomeOut(h, Raised("KeyError"))
        ELSE
        LET todo == IF name = Str_all THEN Keys(Items(h.db, "INSTALLED")) ELSE <<name>>
        IN  Then(check_packages(h, h.db, srcs, todo, 1, flag, FALSE), LAMBDA r :
                 HomeOut(r.home, IF r.exc = "none" THEN Returned(TRUE) ELSE Raised(r.exc)))

-----------------------------------------------------------------------------
(* SpecUpdate: install, remove and update_package on one home directory *)

\* A source whose packages.hdb has no AVAILABLE section
RepoWithoutAvailable ==
    [status |-> "up",
     db |-> File(<< [name |-> "INSTALLED", items |-> <<>>] >>),
     pkgs |-> NoPkgs]

\* What a configured URL may serve: version 1.0 of both packages with a
\* configuration file, later versions of p without and with one, later
\* versions of q whose archive has no lib/ or no executable, and sources
\* that fail
UpdateUniverse ==
    { Repo("up", << <<Str_p, Str_1_0>>, <<Str_q, Str_1_0>> >>,
           [n \in Names |-> Archive(Str_1_0, GoodInner, {Str_conf})]),
      Repo("up", << <<Str_p, Str_9_0>>, <<Str_q, Str_10_0>> >>,
           [NoPkgs EXCEPT ![Str_p] = Archive(Str_9_0, GoodInner, {}),
                          ![Str_q] = Archive(Str_10_0, {"etc", "run"}, {})]),
      Repo("up", << <<Str_p, Str_10_0>>, <<Str_q, Str_9_0>> >>,
           [NoPkgs EXCEPT ![Str_p] = Archive(Str_10_0, GoodInner, {Str_conf}),
                          ![Str_q] = Archive(Str_9_0, {"etc", "lib"}, {})]),
      Repo("unreachable", <<>>, NoPkgs),
      Repo("reset", <<>>, NoPkgs),
      RepoWithoutAvailable }

UpdateCall(name, flag) ==
    [op |-> "update_package", action |-> IF flag THEN "--no-preserve" ELSE "",
     section |-> "", name |-> name, ver |-> <<>>, src |-> 0]

UpdateInit ==
    /\ db = NoFile
    /\ cache = [n \in Names |-> NoArchive]
    /\ root = [n \in Names |-> NoTree]
    /\ bin = [n \in Names |-> NoEntry]
    /\ dirs = {}
    /\ \E k \in 0..NumSources : sources \in [1..k -> UpdateUniverse]
    /\ repoDb = NoFile
    /\ repoDir = <<>>
    /\ temp = NoTemp
    /\ srcDir = NoSourceTree
    /\ config = NoFile
    /\ procs = <<>>
    /\ call = NoCall
    /\ result = Returned(FALSE)
    /\ log = <<>>

\* How many '.hkg_old' suffixes a file of an etc/ directory may carry when an
\* update starts
MaxStaged == 1

\* The number of '.hkg_old' suffixes a configuration file's name carries
Suffixes(f) == (Len(f) - Len(Str_conf)) \div Len(Str_hkg_old)

\* hkg update [--no-preserve] (<package_name> | all)
Update ==
    \E n \in Names \cup {Str_all}, flag \in BOOLEAN :
        LET out == update_package(Home, sources, n, flag)
        IN  /\ \A m \in Names : \A f \in root[m].etc \cup temp.files :
                  Suffixes(f) <= MaxStaged
            /\ SetHome(out.home)
            /\ call' = UpdateCall(n, flag)
            /\ result' = out.ret
            /\ UNCHANGED <<sources, repoDb, repoDir, srcDir, config, procs>>

UpdateNext == ParseArgs \/ Install \/ Remove \/ Update

SpecUpdate == UpdateInit /\ [][UpdateNext]_vars

\* Some configured source advertises n at a version that is string-greater
\* than the one INSTALLED records for n
SourceOffersNewer(n) ==
    /\ Installed(db, n)
    /\ \E i \in DOMAIN sources :
          /\ Advertises(sources[i], n)
          /\ StrGreater(Get(Items(sources[i].db, "AVAILABLE"), n),
                        Get(Items(db, "INSTALLED"), n))

\* The side effects of the last call that name the package n
EventsOn(l, n) == {i \in DOMAIN l : l[i].name = n}

StagedTimes(l, n) == Cardinality({i \in DOMAIN l : l[i] = Ev("stage", 0, n)})

\* update_package with config preservation enabled returned True
PreservingUpdateReturnedTrue ==
    call.op = "update_package" /\ call.action = "" /\ IsTrue(result)

\* The name f with '.hkg_old' appended k times
RECURSIVE Tagged(_, _)
Tagged(f, k) == IF k = 0 THEN f ELSE Tagged(f, k - 1) \o Str_hkg_old

\* C14 as stated: when update_package replaces a package with config
\* preservation enabled and the package's etc/ is not empty, then after the
\* update every file that was in the old etc/ is in the freshly installed
\* package's etc/ under its original file name, and the staging directory
\* no longer exists.
C14_EtcRestoredUnderOriginalNames ==
    [][ PreservingUpdateReturnedTrue' =>
          \A n \in Names :
              (root[n].etc # {} /\ StagedTimes(log', n) > 0) =>
                  /\ root[n].etc \subseteq root'[n].etc
                  /\ ~temp'.exists ]_vars

\* C14, amended: every file that was in the old etc/ is in the freshly
\* installed package's etc/ under its original name followed by '.hkg_old',
\* appended once for each source the package was replaced from during the
\* call, and the staging directory no longer exists.
C14_EtcRestoredWithSuffix ==
    [][ PreservingUpdateReturnedTrue' =>
          \A n \in Names :
              (root[n].etc # {} /\ StagedTimes(log', n) > 0) =>
                  /\ \A f \in root[n].etc :
                        Tagged(f, StagedTimes(log', n)) \in root'[n].etc
                  /\ ~temp'.exists ]_vars

\* An update that replaced a package shipping 'conf' by a version shipping
\* no configuration file: etc/ holds 'conf.hkg_old' and nothing else
C14_Witness ==
    /\ PreservingUpdateReturnedTrue /\ call.name \in Names
    /\ StagedTimes(log, call.name) = 1
    /\ HasEvent(log, "restore")
    /\ root[call.name].present
    /\ root[call.name].etc = {Str_conf \o Str_hkg_old}
    /\ ~temp.exists

\* C20: every invocation of install_package, remove_package, update_package
\* and update_repo ends with a definite success or failure result, whatever
\* the input and the state of the environment (unreachable source, remote
\* store lacking the package or the AVAILABLE section, extracted package
\* lacking etc/ or lib/, files that are no archives in a repository
\* directory, update target that is not installed); none ends in an
\* unhandled error.
C20_EveryCallReturns ==
    call.op \in {"install_package", "remove_package", "update_package", "update_repo"} =>
        result.exc = "none"

-----------------------------------------------------------------------------
(* settings.conf: create_default_config, add_repo and del_repo *)

\* Repository URLs as the character codes of "h/a", "h/b", "h/c", "h/A" and
\* "h/B": the last two differ from the first two only in the case of a letter
Url_a == <<104, 47, 97>>
Url_b == <<104, 47, 98>>
Url_c == <<104, 47, 99>>
Url_A == <<104, 47, 65>>
Url_B == <<104, 47, 66>>

Str_enabled == <<101, 110, 97, 98, 108, 101, 100>>

\* config_data['SOURCES'] = {}; config_data['OPTIONS'] = {}, written with
\* mode 'w' over whatever the file held
DefaultSections ==
    << [name |-> "SOURCES", items |-> <<>>], [name |-> "OPTIONS", items |-> <<>>] >>

create_default_config(f) == ApiOut(File(DefaultSections), Returned(TRUE))

\* add_repo: read the file, assign config_data['SOURCES'][repo_url] (the
\* parser lower-cases the option name; a key already there keeps its place
\* and is assigned again), write the file back, return True
add_repo(f, repo_url) ==
    IF ~Parses(f) THEN ApiOut(f, Raised("DuplicateSectionError"))
    ELSE IF ~HasSection(f, "SOURCES") THEN ApiOut(f, Raised("KeyError"))
    ELSE ApiOut(WithItems(f, "SOURCES",
                          Put(Items(f, "SOURCES"), optionxform(repo_url), Str_enabled)),
                Returned(TRUE))

\* del_repo: 'repo_url in list(config_data['SOURCES'])' compares the URL as
\* given with the stored (lower-cased) option names; absent: return False
\* before anything is written
del_repo(f, repo_url) ==
    IF ~Parses(f) THEN ApiOut(f, Raised("DuplicateSectionError"))
    ELSE IF ~HasSection(f, "SOURCES") THEN ApiOut(f, Raised("KeyError"))
    ELSE IF ~HasKey(Items(f, "SOURCES"), repo_url) THEN ApiOut(f, Returned(FALSE))
    ELSE ApiOut(WithItems(f, "SOURCES", Del(Items(f, "SOURCES"), optionxform(repo_url))),
                Returned(TRUE))

-----------------------------------------------------------------------------
(* SpecConfig: the source list of one settings.conf *)

Urls == {Url_a, Url_b, Url_c, Url_A, Url_B}

ConfigInit ==
    /\ db = NoFile
    /\ dirs = {}
    /\ cache = [n \in Names |-> NoArchive]
    /\ root = [n \in Names |-> NoTree]
    /\ bin = [n \in Names |-> NoEntry]
    /\ sources = <<>>
    /\ repoDb = NoFile
    /\ repoDir = <<>>
    /\ temp = NoTemp
    /\ srcDir = NoSourceTree
    /\ config = NoFile
    /\ procs = <<>>
    /\ call = NoCall
    /\ result = Returned(TRUE)
    /\ log = <<>>

\* The file and the return value an invocation leaves behind
SetConfig(out) ==
    /\ config' = out.file
    /\ result' = out.ret
    /\ UNCHANGED <<db, dirs, cache, root, bin, sources, repoDb, repoDir, temp, srcDir, procs, log>>

CreateDefaultConfig ==
    /\ call' = OpCall("create_default_config", <<>>, 0)
    /\ SetConfig(create_default_config(config))

AddRepo ==
    \E u \in Urls :
        /\ call' = OpCall("add_repo", u, 0)
        /\ SetConfig(add_repo(config, u))

DelRepo ==
    \E u \in Urls :
        /\ call' = OpCall("del_repo", u, 0)
        /\ SetConfig(del_repo(config, u))

ConfigNext == CreateDefaultConfig \/ AddRepo \/ DelRepo

SpecConfig == ConfigInit /\ [][ConfigNext]_vars

\* The source list: the option names of [SOURCES], in file order
SourceList(f) == Keys(Items(f, "SOURCES"))

\* C21 as stated: add_repo with a URL already in the source list is rejected
\* (it does not return True) and leaves the source list unchanged
C21_DuplicateAddRejected ==
    [][(/\ call'.op = "add_repo"
        /\ HasSection(config, "SOURCES")
        /\ HasKey(Items(config, "SOURCES"), call'.name))
       => (/\ ~IsTrue(result')
           /\ SourceList(config') = SourceList(config))]_vars

\* u is not in the source list, by the rule the parser stores names with
NotListed(f, u) == ~HasKey(Items(f, "SOURCES"), optionxform(u))

\* C22 as stated: del_repo with a URL that is not in the source list returns
\* False and leaves the configuration as it was; add_repo(u) followed by
\* del_repo(u), for a URL u not yet listed, both return True and leave the
\* source list as it was before the add
C22_DelAbsentFailsAddDelRestores ==
    HasSection(config, "SOURCES") =>
        \A u \in Urls :
            NotListed(config, u) =>
                /\ del_repo(config, u) = ApiOut(config, Returned(FALSE))
                /\ LET added == add_repo(config, u)
                       deleted == del_repo(added.file, u)
                   IN  /\ IsTrue(added.ret)
                       /\ IsTrue(deleted.ret)
                       /\ SourceList(deleted.file) = SourceList(config)

-----------------------------------------------------------------------------
(* The store under valid create, update and delete calls *)

\* Exactly the sections INSTALLED and AVAILABLE, every key once in its
\* section, and validate_package_database returns True
SoundStore(f) ==
    /\ f.exists
    /\ Len(f.sections) = 2
    /\ \A s \in SectionNames : HasSection(f, s)
    /\ \A s \in SectionNames : \A i, j \in DOMAIN Items(f, s) :
           Items(f, s)[i][1] = Items(f, s)[j][1] => i = j
    /\ IsTrue(validate_package_database(f))

\* A create, update or delete of a valid name with a valid version in one of
\* the two sections
ValidWrite(c) ==
    /\ c.op = "api"
    /\ c.action \in {"create", "update", "delete"}
    /\ c.section \in SectionNames
    /\ c.name \in Names
    /\ c.action # "delete" => MatchesVersionPattern(c.ver)

\* C23: init_package_database on a missing file leaves a store with exactly
\* the sections INSTALLED and AVAILABLE, unique keys and a True
\* validate_package_database, and every create, update or delete with a valid
\* section, name and version keeps such a store such a store.
C23_ValidWritesKeepStoreSound ==
    [][/\ (call'.op = "init_package_database" /\ ~db.exists) => SoundStore(db')
       /\ (SoundStore(db) /\ ValidWrite(call')) => SoundStore(db')]_vars

\* An update that overwrote an entry of a store with entries in both sections
C23_Witness ==
    /\ call.op = "api" /\ call.action = "update"
    /\ call.section = "INSTALLED" /\ call.name = Str_p /\ call.ver = Str_10_0
    /\ IsTrue(result)
    /\ SoundStore(db)
    /\ Items(db, "INSTALLED") = << <<Str_q, Str_1_0>>, <<Str_p, Str_10_0>> >>
    /\ Len(Items(db, "AVAILABLE")) = 2

-----------------------------------------------------------------------------
(* update_repo and the entries of the directory that are no packages *)

\* Every '.hkg' file of the directory is a readable archive
ArchivesReadable(dir) ==
    \A name \in Present(dir) : Last4(name) = Str_hkg => dir[name].kind = "tar"

\* C24 as stated: on a repository with a store and readable archives,
\* whatever other entries the directory holds and wherever os.listdir puts
\* them, update_repo returns True and AVAILABLE holds the archive base names
\* and no other key.
C24_OtherEntriesAreDiscarded ==
    [][(/\ call'.op = "update_repo"
        /\ HasBothSections(repoDb)
        /\ ArchivesReadable(repoDir))
       => (/\ IsTrue(result')
           /\ KeySet(Available(repoDb')) = ArchiveNames(repoDir))]_vars

\* Some '.hkg' file of the directory cannot be read as an archive
SomeArchiveUnreadable(dir) ==
    \E name \in Present(dir) : Last4(name) = Str_hkg /\ dir[name].kind # "tar"

\* C25: when some archive of the repository directory is unreadable,
\* update_repo does not return True and leaves the repository store exactly
\* as it was: no entry of another archive is created, updated or deleted.
C25_UnreadableArchiveLeavesStore ==
    [][(call'.op = "update_repo" /\ SomeArchiveUnreadable(repoDir))
       => (~IsTrue(result') /\ repoDb' = repoDb /\ log' = <<>>)]_vars

\* update_repo raised ReadError in a repository whose store lacks the
\* readable archive beside the unreadable one and lists a name without archive
C25_Witness ==
    /\ call.op = "update_repo"
    /\ result = Raised("ReadError")
    /\ HasBothSections(repoDb)
    /\ repoDir[FileName_p].kind = "tar"
    /\ repoDir[FileName_q] = NotTar
    /\ KeySet(Available(repoDb)) = {Str_q}

-----------------------------------------------------------------------------
(* install_package and a source that cannot be fetched from *)

\* C26 as stated: when the fetch of the first source's packages.hdb signals
\* a connection failure, install_package goes on to the next source, and
\* downloads the package from it if it advertises the package.
C26_FailedSourceIsSkipped ==
    (/\ call.op = "install_package" /\ call.src = 0
     /\ HasEvent(log, "GET_db")
     /\ Len(sources) = 2
     /\ sources[1].status # "up") =>
        /\ result.exc \notin {"ConnectionError", "requests.exceptions.ConnectionError"}
        /\ \E i \in DOMAIN log : log[i] = Ev("GET_db", 2, <<>>)
        /\ Advertises(sources[2], call.name) =>
               \E i \in DOMAIN log : log[i] = Ev("GET_pkg", 2, call.name)

-----------------------------------------------------------------------------
(* install_package and a package without exactly one executable *)

\* What the inner directory of n holds besides etc and lib
Executables(tree) == tree.inner \ {"etc", "lib"}

\* C27: when the extracted inner directory holds etc and lib and, besides
\* them, no entry or more than one, install_package returns False, creates no
\* link and no INSTALLED entry, and leaves the extracted tree and the cached
\* archive where they are.
C27_MalformedPackageIsLeftInPlace ==
    [][(/\ call'.op = "install_package"
        /\ HasEvent(log', "extract")
        /\ {"etc", "lib"} \subseteq root'[call'.name].inner
        /\ Cardinality(Executables(root'[call'.name])) # 1)
       => (/\ IsFalse(result')
           /\ bin' = bin
           /\ db' = db
           /\ ~HasEvent(log', "symlink") /\ ~HasEvent(log', "db_create")
           /\ root'[call'.name].present
           /\ cache'[call'.name] = Served(sources[DownloadedFrom'], call'.name)
           /\ cache'[call'.name].kind = "tar")]_vars

\* An install that returned False after extracting a package with two
\* executables, with the other package's tree holding none
C27_Witness ==
    /\ call.op = "install_package" /\ IsFalse(result)
    /\ HasEvent(log, "extract")
    /\ Cardinality(Executables(root[call.name])) = 2
    /\ cache[call.name].kind = "tar"
    /\ ~Installed(db, call.name)
    /\ bin[call.name] = NoEntry
    /\ \E n \in Names : root[n].present /\ Executables(root[n]) = {}

-----------------------------------------------------------------------------
(* SpecRemove: remove_package in a home whose owner also deletes by hand *)

\* What the one configured URL may serve: both packages well formed, or a q
\* without an executable beside a p with two
RemoveUniverse ==
    { Repo("up", << <<Str_p, Str_1_0>>, <<Str_q, Str_1_0>> >>,
           [n \in Names |-> Archive(Str_1_0, GoodInner, {"conf"})]),
      Repo("up", << <<Str_q, Str_9_0>>, <<Str_p, Str_1_0>> >>,
           [NoPkgs EXCEPT ![Str_q] = Archive(Str_9_0, {"etc", "lib"}, {}),
                          ![Str_p] = Archive(Str_1_0, {"etc", "lib", "run", "tool"}, {})]) }

RemoveInit ==
    /\ db = NoFile
    /\ cache = [n \in Names |-> NoArchive]
    /\ root = [n \in Names |-> NoTree]
    /\ bin \in [Names -> PreBinEntries]
    /\ Cardinality({n \in Names : bin[n] # NoEntry}) <= 1
    /\ dirs = IF \E n \in Names : bin[n] # NoEntry THEN {"bin"} ELSE {}
    /\ sources \in [1..1 -> RemoveUniverse]
    /\ repoDb = NoFile
    /\ repoDir = <<>>
    /\ temp = NoTemp
    /\ srcDir = NoSourceTree
    /\ config = NoFile
    /\ procs = <<>>
    /\ call = NoCall
    /\ result = Returned(FALSE)
    /\ log = <<>>

\* The owner of the home directory deletes a package's tree without hkg
DeleteTreeByHand ==
    \E n \in Names :
        /\ root[n].present
        /\ root' = [root EXCEPT ![n] = NoTree]
        /\ call' = OpCall("delete_tree", n, 0)
        /\ result' = Returned(TRUE)
        /\ log' = <<>>
        /\ UNCHANGED <<db, dirs, cache, bin, sources, repoDb, repoDir, temp, srcDir, config, procs>>

RemoveNext == ParseArgs \/ Install \/ Remove \/ DeleteTreeByHand

SpecRemove == RemoveInit /\ [][RemoveNext]_vars

\* The events of l that remove a file, a tree or a link
FileRemovals(l) == {i \in DOMAIN l : l[i].ev \in {"rmtree", "rm_cache", "unlink"}}

\* C28: a remove_package that passed its checks deletes the INSTALLED record
\* before it removes the tree, the cached archive or the link, and when a
\* later step fails the record stays deleted and the remaining files stay.
C28_RecordDeletedFirstNoRollback ==
    [][(call'.op = "remove_package" /\ Installed(db, call'.name))
       => (/\ log' # <<>> /\ log'[1] = Ev("db_delete", 0, call'.name)
           /\ \A i \in FileRemovals(log') : i > 1
           /\ ~Installed(db', call'.name)
           /\ result'.exc # "none" =>
                 /\ FileRemovals(log') = {}
                 /\ UNCHANGED <<cache, root, bin>>)]_vars

\* A remove_package that failed on the missing tree after deleting the
\* record, with the cached archive and the link still there
C28_Witness ==
    /\ call.op = "remove_package" /\ result = Raised("FileNotFoundError")
    /\ ~Installed(db, call.name)
    /\ log = <<Ev("db_delete", 0, call.name)>>
    /\ cache[call.name].kind = "tar"
    /\ HasPkgLink(call.name)

\* C29: whatever name it is given, the empty string included, remove_package
\* keeps the install root and the local store file, and removes no tree but
\* that of its argument, a package that was under INSTALLED when the call began.
C29_OnlyInstalledSubtreeRemoved ==
    [][call'.op = "remove_package"
       => (/\ db'.exists = db.exists
           /\ dirs' = dirs
           /\ \A i \in DOMAIN log' :
                 log'[i].ev = "rmtree" =>
                     /\ log'[i].name \in Names
                     /\ log'[i].name = call'.name
                     /\ Installed(db, call'.name)
           /\ \A m \in Names :
                 root'[m] # root[m] =>
                     /\ m = call'.name
                     /\ Installed(db, m)
                     /\ root'[m] = NoTree)]_vars

\* A remove_package of the empty name that returned False in a home with an
\* installed package and the leftover tree of a failed install
C29_Witness ==
    /\ call.op = "remove_package" /\ call.name = <<>>
    /\ IsFalse(result)
    /\ \E m \in Names : Installed(db, m) /\ root[m].present
    /\ \E m \in Names : ~Installed(db, m) /\ root[m].present

-----------------------------------------------------------------------------
(* update_package and the sources after the one that triggered an update *)

\* The packages.hdb fetches of the update loops: those of a nested
\* install_package are followed at once by the download of the archive
LoopFetches(l) ==
    SelectSeq([i \in DOMAIN l |-> [e |-> l[i], last |-> i = Len(l) \/ l[i + 1].ev # "GET_pkg"]],
              LAMBDA x : x.e.ev = "GET_db" /\ x.last)

\* packages_to_check
WorkList(f, name) == IF name = Str_all THEN Keys(Items(f, "INSTALLED")) ELSE <<name>>

\* C30: an update_package that returns has fetched, for each package of its
\* work list in turn, the packages.hdb of every configured source in
\* configuration order, the sources after one that triggered an update of
\* that package included.
C30_EverySourceCheckedForEveryPackage ==
    [][(call'.op = "update_package" /\ IsTrue(result'))
       => LET K == Len(sources)
              f == LoopFetches(log')
          IN  /\ Len(f) = Len(WorkList(db, call'.name)) * K
              /\ \A j \in DOMAIN f : f[j].e.src = ((j - 1) % K) + 1]_vars

\* An update of 'all' with two packages installed that replaced a package
\* from the first source and fetched from the second source after that
C30_Witness ==
    /\ call.op = "update_package" /\ call.name = Str_all
    /\ IsTrue(result)
    /\ Len(sources) = 2
    /\ Len(LoopFetches(log)) = 4
    /\ \E i, j \in DOMAIN log :
          /\ i < j
          /\ log[i].ev = "GET_pkg" /\ log[i].src = 1
          /\ log[j] = Ev("GET_db", 2, <<>>)
          /\ \A k \in DOMAIN log : log[k].ev = "GET_pkg" => log[k].name = log[i].name

-----------------------------------------------------------------------------
(* SpecRace: two invocations of package_database_api on one store file *)

Invocations == {1, 2}

\* An invocation before its call, and after its return
NotCalled == [pc |-> "start", action |-> "", section |-> "", name |-> <<>>, ver |-> <<>>,
              pkg_db |-> NoFile, ret |-> Returned(FALSE)]

\* Lines 765-766 and the assignment that follows: pkg_db.read(db_location),
\* then pkg_db[db_section][db_pkgname] = db_pkgver in memory; a file without
\* the section (one another invocation has just truncated) is a KeyError
race_read(pr, f) ==
    LET out == package_database_api(f, pr.action, pr.section, pr.name, pr.ver)
    IN  IF out.ret.exc # "none"
        THEN [pr EXCEPT !.pc = "returned", !.ret = out.ret]
        ELSE [pr EXCEPT !.pc = "open", !.pkg_db = f]

\* open(db_location, 'w'): the file is truncated
race_open(f) == File(<<>>)

\* pkg_db.write(pkg_db_file); close(): the parser's whole content, which is
\* what this invocation read with its own change applied, replaces the file
MutWriteOntoCurrent(pr, f) ==
    IF f.sections # <<>>
    THEN package_database_api(f, pr.action, pr.section, pr.name, pr.ver).file
    ELSE package_database_api(pr.pkg_db, pr.action, pr.section, pr.name, pr.ver).file

race_write(pr, f) ==
    package_database_api(pr.pkg_db, pr.action, pr.section, pr.name, pr.ver).file

\* The stores the two invocations may start on: as init_package_database
\* left it, and with both packages installed
RaceStores ==
    { File(SkeletonSections),
      File(<< [name |-> "INSTALLED", items |-> << <<Str_p, Str_1_0>>, <<Str_q, Str_1_0>> >>],
              [name |-> "AVAILABLE", items |-> <<>>] >>) }

RaceInit ==
    /\ db \in RaceStores
    /\ procs = [i \in Invocations |-> NotCalled]
    /\ dirs = {}
    /\ cache = <<>>
    /\ root = <<>>
    /\ bin = <<>>
    /\ sources = <<>>
    /\ repoDb = NoFile
    /\ repoDir = <<>>
    /\ temp = NoTemp
    /\ srcDir = NoSourceTree
    /\ config = NoFile
    /\ call = NoCall
    /\ result = Returned(FALSE)
    /\ log = <<>>

RaceFrame ==
    UNCHANGED <<dirs, cache, root, bin, sources, repoDb, repoDir, temp, srcDir, config, call,
                result, log>>

\* package_database_api(db_location, 'create' | 'update' | 'delete', ...) is called
RaceCall ==
    \E i \in Invocations, action \in {"create", "update", "delete"},
       section \in SectionNames, name \in Names :
      \E ver \in CallVersions(action) :
        /\ procs[i].pc = "start"
        /\ procs' = [procs EXCEPT ![i] = [NotCalled EXCEPT !.pc = "read", !.action = action,
                                             !.section = section, !.name = name, !.ver = ver]]
        /\ UNCHANGED db
        /\ RaceFrame

RaceRead ==
    \E i \in Invocations :
        /\ procs[i].pc = "read"
        /\ procs' = [procs EXCEPT ![i] = race_read(procs[i], db)]
        /\ UNCHANGED db
        /\ RaceFrame

RaceOpen ==
    \E i \in Invocations :
        /\ procs[i].pc = "open"
        /\ db' = race_open(db)
        /\ procs' = [procs EXCEPT ![i].pc = "write"]
        /\ RaceFrame

RaceWrite ==
    \E i \in Invocations :
        /\ procs[i].pc = "write"
        /\ db' = race_write(procs[i], db)
        /\ procs' = [procs EXCEPT ![i].pc = "returned", ![i].ret = Returned(TRUE)]
        /\ RaceFrame

RaceNext == RaceCall \/ RaceRead \/ RaceOpen \/ RaceWrite

SpecRace == RaceInit /\ [][RaceNext]_vars

\* The change of invocation pr is in the store f
Reflects(f, pr) ==
    /\ HasSection(f, pr.section)
    /\ IF pr.action = "delete"
       THEN ~HasKey(Items(f, pr.section), pr.name)
       ELSE /\ HasKey(Items(f, pr.section), pr.name)
            /\ Get(Items(f, pr.section), pr.name) = pr.ver

\* C31: the last whole-file write wins.  Whenever an invocation writes, the
\* file becomes what that invocation read with its own change applied, and
\* it returns True, whatever the other invocation wrote in between.
C31_LastWholeFileWriteWins ==
    [][\A i \in Invocations :
          (procs[i].pc = "write" /\ procs'[i].pc = "returned")
          => LET pr == procs[i]
                 S == pr.section
                 other == CHOOSE s \in SectionNames : s # S
             IN  /\ IsTrue(procs'[i].ret)
                 /\ Reflects(db', pr)
                 /\ Items(db', other) = Items(pr.pkg_db, other)
                 /\ \A k \in Names \ {pr.name} :
                       /\ HasKey(Items(db', S), k) <=> HasKey(Items(pr.pkg_db, S), k)
                       /\ HasKey(Items(db', S), k) =>
                             Get(Items(db', S), k) = Get(Items(pr.pkg_db, S), k)]_vars

\* Both invocations returned True, one created p and the other created q
\* under INSTALLED of an empty store, and the store holds only one of them
C31_Witness ==
    /\ \A i \in Invocations : procs[i].pc = "returned" /\ IsTrue(procs[i].ret)
    /\ procs[1].action = "create" /\ procs[1].section = "INSTALLED" /\ procs[1].name = Str_p
    /\ procs[2].action = "create" /\ procs[2].section = "INSTALLED" /\ procs[2].name = Str_q
    /\ procs[1].pkg_db = File(SkeletonSections)
    /\ Reflects(db, procs[2])
    /\ ~Reflects(db, procs[1])
    /\ Len(Items(db, "INSTALLED")) = 1

-----------------------------------------------------------------------------
(* SpecPublish: update_package while the repositories publish new versions *)

\* What a configured URL may serve at one time: both packages at "1.0", at
\* "9.0" or at "10.0"; p ships a configuration file and q ships none
Release(v) ==
    Repo("up", << <<Str_p, v>>, <<Str_q, v>> >>,
         [n \in Names |-> Archive(v, GoodInner, IF n = Str_p THEN {Str_conf} ELSE {})])

PublishUniverse == {Release(v) : v \in Versions}

PublishInit ==
    /\ db = NoFile
    /\ cache = [n \in Names |-> NoArchive]
    /\ root = [n \in Names |-> NoTree]
    /\ bin = [n \in Names |-> NoEntry]
    /\ dirs = {}
    /\ sources \in [1..2 -> PublishUniverse]
    /\ repoDb = NoFile
    /\ repoDir = <<>>
    /\ temp = NoTemp
    /\ srcDir = NoSourceTree
    /\ config = NoFile
    /\ procs = <<>>
    /\ call = NoCall
    /\ result = Returned(FALSE)
    /\ log = <<>>

\* The maintainer of a repository replaces what it serves
Publish ==
    \E i \in DOMAIN sources, r \in PublishUniverse :
        /\ sources[i] # r
        /\ sources' = [sources EXCEPT ![i] = r]
        /\ call' = OpCall("publish", <<>>, i)
        /\ result' = Returned(TRUE)
        /\ log' = <<>>
        /\ UNCHANGED <<db, dirs, cache, root, bin, repoDb, repoDir, temp, srcDir, config, procs>>

PublishNext == ParseArgs \/ Install \/ Remove \/ Update \/ Publish

SpecPublish == PublishInit /\ [][PublishNext]_vars

\* The positions in l of the archive downloads of package n
Downloads(l, n) == {i \in DOMAIN l : l[i].ev = "GET_pkg" /\ l[i].name = n}

\* C32 as stated: within one update_package pass, a source that comes after
\* one the package was already replaced from replaces it again only if the
\* version it advertises is string-greater than the version then installed
\* (the metadata version of the archive downloaded before).
C32_LaterSourceReplacesOnlyIfNewer ==
    [][call'.op = "update_package"
       => \A n \in Names : \A i, j \in Downloads(log', n) :
             i < j =>
                 StrGreater(Get(Items(sources[log'[j].src].db, "AVAILABLE"), n),
                            sources[log'[i].src].pkgs[n].version)]_vars

-----------------------------------------------------------------------------
(* update_package and a reinstall that fails *)

\* C33 as stated: a package that was under INSTALLED before update_package
\* was called is under INSTALLED when update_package returns True.
C33_UpdateKeepsPackagesInstalled ==
    [][(call'.op = "update_package" /\ IsTrue(result'))
       => \A n \in Names : Installed(db, n) => Installed(db', n)]_vars

-----------------------------------------------------------------------------
(* update_package and post_update_cleanup *)

\* The files of the package replaced at position i were staged for that
\* replacement: the stage immediately precedes its INSTALLED delete
StagedFor(l, i) ==
    \E j \in 2..i :
        /\ l[j].ev = "db_delete" /\ \A k \in (j + 1)..i : l[k].ev # "db_delete"
        /\ l[j - 1] = Ev("stage", 0, l[j].name)

\* C34 as stated: within one update_package pass a restore from the staging
\* directory happens only for a replacement whose own files were staged, and
\* no replacement fails on the staging directory a previous one deleted.
C34_RestoreOnlyAfterOwnStaging ==
    [][call'.op = "update_package"
       => (/\ \A i \in DOMAIN log' : log'[i].ev = "restore" => StagedFor(log', i)
           /\ result'.exc # "FileNotFoundError")]_vars

-----------------------------------------------------------------------------
(* update_repo and an archive replaced by a lower version *)

\* C35 as stated: after update_repo returns True, AVAILABLE records for every
\* archive of the directory the version in that archive's metadata.
C35_AvailableIsMetadataVersion ==
    [][UpdateRepoReturnedTrue'
       => \A n \in ArchiveNames(repoDir) :
             /\ HasKey(Available(repoDb'), n)
             /\ Get(Available(repoDb'), n) = ArchiveOf(repoDir, n).version]_vars

-----------------------------------------------------------------------------
(* update_package run twice *)

\* C36 as stated: an update_package that follows at once an update_package
\* with the same arguments that returned True, no repository having changed
\* in between, removes and reinstalls nothing and leaves the local store and
\* the installed files as they were.
C36_SecondUpdateChangesNothing ==
    [][(/\ call.op = "update_package" /\ IsTrue(result)
        /\ call' = call)
       => (/\ ~HasEvent(log', "db_delete") /\ ~HasEvent(log', "GET_pkg")
           /\ UNCHANGED <<db, root, cache, bin>>)]_vars

-----------------------------------------------------------------------------
(* The INSTALLED record and the extracted tree, step by step *)

\* The positions among the first k effects of l that are one of evs on n
Touching(l, k, n, evs) == {i \in 1..k : l[i].name = n /\ l[i].ev \in evs}

LastIn(S) == CHOOSE i \in S : \A j \in S : j <= i

\* Is n under INSTALLED after the first k effects of l, given whether it
\* was before the call
RecordAfter(l, k, n, before) ==
    LET S == Touching(l, k, n, {"db_create", "db_delete"})
    IN  IF S = {} THEN before ELSE l[LastIn(S)].ev = "db_create"

\* Is the tree of n present after the first k effects of l
TreeAfter(l, k, n, before) ==
    LET S == Touching(l, k, n, {"extract", "rmtree"})
    IN  IF S = {} THEN before ELSE l[LastIn(S)].ev = "extract"

\* C37: in every state that install_package, remove_package and
\* update_package pass through, between two side effects as well as on
\* return, every name under INSTALLED has its extracted tree present.
C37_InstalledImpliesTreePresent ==
    [][call'.op \in {"install_package", "remove_package", "update_package"}
       => \A n \in Names :
             /\ \A k \in 0..Len(log') :
                   RecordAfter(log', k, n, Installed(db, n))
                       => TreeAfter(log', k, n, root[n].present)
             /\ RecordAfter(log', Len(log'), n, Installed(db, n)) <=> Installed(db', n)
             /\ TreeAfter(log', Len(log'), n, root[n].present) <=> root'[n].present
             /\ Installed(db', n) => root'[n].present]_vars

\* An update_package that removed and reinstalled one package while the
\* other stayed installed
C37_Witness ==
    /\ call.op = "update_package" /\ IsTrue(result)
    /\ \A n \in Names : Installed(db, n) /\ root[n].present
    /\ \E n \in Names :
          /\ Touching(log, Len(log), n, {"db_delete"}) # {}
          /\ Touching(log, Len(log), n, {"rmtree"}) # {}
          /\ Touching(log, Len(log), n, {"extract"}) # {}
          /\ Touching(log, Len(log), n, {"db_create"}) # {}

-----------------------------------------------------------------------------
(* remove_package and an entry of ~/bin that hkg did not create *)

\* Something other than the link install_package makes is at ~/bin/<n>
ForeignEntry(e) == e # NoEntry /\ ~(e.kind = "symlink" /\ e.target = "pkg")

\* C38 as stated: a remove_package of an installed package whose name in
\* ~/bin is taken by an entry install_package did not create, a symbolic
\* link included, leaves that entry in place.
C38_ForeignEntrySurvivesRemove ==
    [][(/\ call'.op = "remove_package"
        /\ call'.name \in Names
        /\ Installed(db, call'.name)
        /\ ForeignEntry(bin[call'.name]))
       => bin'[call'.name] = bin[call'.name]]_vars

-----------------------------------------------------------------------------
(* SpecFrame: the store API and update_repo on a store with both sections in use *)

\* What os.listdir may return for the directory the store lies in
FrameListings ==
    { <<>>,
      << [name |-> FileName_p, content |-> Archive(Str_9_0, GoodInner, {})] >>,
      << [name |-> FileName_q, content |-> Archive(Str_1_0, GoodInner, {})],
         [name |-> FileName_p, content |-> Archive(Str_10_0, GoodInner, {})] >>,
      << [name |-> FileName_p, content |-> Archive(Str_1_0, GoodInner, {})],
         [name |-> Str_README, content |-> NotTar] >> }

\* update_repo on the directory of the store (as in SpecStore, the side
\* effects of a call are not recorded)
FrameUpdateRepo ==
    \E listing \in FrameListings :
        LET out == update_repo(db, listing)
        IN  /\ db' = out.file
            /\ call' = OpCall("update_repo", <<>>, 0)
            /\ result' = out.ret
            /\ UNCHANGED <<dirs, cache, root, bin, sources, repoDb, repoDir, temp, srcDir,
                           config, procs, log>>

FrameNext == StoreInitDb \/ StoreApi \/ FrameUpdateRepo

SpecFrame == StoreInit /\ [][FrameNext]_vars

\* The sections of g are those of f, in the same order, and every section
\* but S holds what it held
OtherSectionsKept(f, g, S) ==
    /\ g.exists = f.exists
    /\ Len(g.sections) = Len(f.sections)
    /\ \A i \in DOMAIN f.sections :
          /\ g.sections[i].name = f.sections[i].name
          /\ f.sections[i].name # S => g.sections[i].items = f.sections[i].items

\* C39: create, update and delete on (S, n) keep every other key of S and
\* every entry of the other section; check, version, list and an
\* unrecognised action leave the store as it is; update_repo changes no
\* section but AVAILABLE.
C39_WritesTouchOnlyTheirKey ==
    [][/\ (call'.op = "api" /\ call'.action \in {"create", "update", "delete"}) =>
              /\ OtherSectionsKept(db, db', call'.section)
              /\ \A i \in DOMAIN db.sections :
                    Del(db'.sections[i].items, optionxform(call'.name))
                        = Del(db.sections[i].items, optionxform(call'.name))
       /\ (call'.op = "api" /\ call'.action \notin {"create", "update", "delete"}) =>
              db' = db
       /\ call'.op = "update_repo" => OtherSectionsKept(db, db', "AVAILABLE")]_vars

\* An update_repo that returned True on a store with two INSTALLED entries,
\* leaving under AVAILABLE the one archive of the directory
C39_Witness ==
    /\ call.op = "update_repo" /\ IsTrue(result)
    /\ HasBothSections(db)
    /\ Items(db, "INSTALLED") = << <<Str_q, Str_10_0>>, <<Str_p, Str_1_0>> >>
    /\ Items(db, "AVAILABLE") = << <<Str_p, Str_9_0>> >>

====
